---- MODULE Spec2Model ----
(***************************************************************************)
(* A model of the ray tracer's bounding volume hierarchy (bvh.rs), of the  *)
(* recursive tracer (world.rs, material.rs) and of World::render.          *)
(*                                                                         *)
(* Numbers.  The program computes in f32.  The model computes exactly:     *)
(* coordinates are integers, ray parameters are rationals <<n, d>> in      *)
(* lowest terms with d > 0.  Ray::new normalises the direction; the model  *)
(* keeps the integer direction v it was given, so a ray parameter of the   *)
(* model is the program's t divided by |v|.  All parameters compared with  *)
(* one another belong to the same ray, so every comparison is unchanged.   *)
(* Division by zero keeps its IEEE outcome (inf, NaN) wherever the code    *)
(* can divide by zero.                                                     *)
(***************************************************************************)
EXTENDS Integers, Sequences, FiniteSets, TLC

VARIABLES
    objects,    \* Vec<Object> handed to Bvh::new
    tree,       \* per split policy: the BvhTree built, or its absence
    ray,        \* the ray of the nearest-hit query in progress
    hit,        \* per split policy: the result of that query
    world,      \* World: camera, objects, lights, background_color
    stack,      \* the trace_ray calls in progress, outermost first
    ret,        \* the Color the innermost finished trace_ray call returned
    events,     \* the trace_ray calls made for the ray being traced, and their work
    pc,         \* where World::render is
    job,        \* render's locals: samples_per_pixel, x, y, sample, rgb_sum, column
    pixels,     \* render's pixels: the columns collected so far
    rng,        \* World::rng, the state of the generator
    image,      \* the image file written by image.save
    log,        \* the pixels in the order render computed them: color or panic
    previous,   \* the render before this one: how it started, what it collected
    made,       \* the Color value constructed last, and what constructed it
    box,        \* an AABB: the corners handed to AABB::new, and what came of it
    probe,      \* a ray handed to AABB::intersect, and the result
    threads,    \* per thread: the nearest-hit query it runs on the tree, if any
    split       \* a call of bvh_split on objects: the policy, and what came of it

bvhVars == <<objects, tree, ray, hit>>
traceVars == <<world, stack, ret, events>>
renderVars == <<pc, job, pixels, rng, image, log, previous>>
unitVars == <<made, box, probe, threads, split>>
vars == <<bvhVars, traceVars, renderVars, unitVars>>

----------------------------------------------------------------------------
(* Bounds of the model *)

\* the longest list of primitives handed to Bvh::new
MaxObjects == 5

\* the largest budget trace_ray is called with from outside
MaxBounces == 3

\* the largest samples_per_pixel render is called with
MaxSamples == 2

\* the number of states thread_rng() may start the generator in
NSeeds == 2

\* the number of threads that query one tree
NThreads == 2

Seeds == 0..(NSeeds - 1)

\* the most operations applied to a Color one after another
MaxOps == 2

----------------------------------------------------------------------------
(* Option<T> *)

None == [some |-> FALSE]
Some(x) == [some |-> TRUE, v |-> x]

(* cgmath vectors and points, as triples *)

Axes == 1..3
VAdd(a, b) == [i \in Axes |-> a[i] + b[i]]
VSub(a, b) == [i \in Axes |-> a[i] - b[i]]
VScale(k, a) == [i \in Axes |-> k * a[i]]
Dot(a, b) == a[1] * b[1] + a[2] * b[2] + a[3] * b[3]
Cross(a, b) ==
    <<a[2] * b[3] - a[3] * b[2], a[3] * b[1] - a[1] * b[3], a[1] * b[2] - a[2] * b[1]>>

(* exact rationals standing for f32 values *)

Abs(n) == IF n < 0 THEN -n ELSE n

RECURSIVE Gcd(_, _)
Gcd(a, b) == IF b = 0 THEN a ELSE Gcd(b, a % b)

Rat(n, d) ==
    LET g == Gcd(Abs(n), Abs(d))
        s == IF d < 0 THEN -1 ELSE 1
    IN  <<(s * n) \div g, (s * d) \div g>>

\* the integer vector of least length in the direction of v (v nonzero)
Primitive(v) ==
    LET g == Gcd(Gcd(Abs(v[1]), Abs(v[2])), Abs(v[3]))
    IN  [i \in Axes |-> v[i] \div g]

RLt(p, q) == p[1] * q[2] < q[1] * p[2]
RLe(p, q) == p[1] * q[2] <= q[1] * p[2]
RMin(p, q) == IF RLt(q, p) THEN q ELSE p
RMax(p, q) == IF RLt(p, q) THEN q ELSE p

SetMin(S) == CHOOSE m \in S : \A n \in S : m <= n
SetMax(S) == CHOOSE m \in S : \A n \in S : m >= n

Range(s) == {s[i] : i \in DOMAIN s}

\* a sequence given by a rule, with its members computed once
Tab(s) == s \o <<>>

----------------------------------------------------------------------------
(* utils.rs *)

\* component_wise_range: the (min, max) corner of a non-empty list of points
component_wise_range(points) ==
    <<[i \in Axes |-> SetMin({p[i] : p \in Range(points)})],
      [i \in Axes |-> SetMax({p[i] : p \in Range(points)})]>>

----------------------------------------------------------------------------
(* ray.rs *)

\* A ray starts at position / den, moved forward along direction by off times
\* 1e-4, and runs along direction (not normalised).  Lengths are in units of
\* 1e-4, the epsilon of Ray::offset and of the shadow test.
NewRay(position, direction) ==
    [position |-> position, den |-> 1, direction |-> direction, off |-> 0]

----------------------------------------------------------------------------
(* object.rs: planar primitives under the identity transform *)

Vertices(object) ==
    IF object.type = "Quad" THEN <<object.a, object.b, object.c, object.d>>
    ELSE <<object.a, object.b, object.c>>

\* the direction of a vector, the zero vector having none
DirectionOf(v) == IF v = <<0, 0, 0>> THEN v ELSE Primitive(v)

\* the normal, as a direction; its second edge is d - a for a quad, c - a for a
\* triangle
NormalOf(object) ==
    IF object.type = "Quad"
    THEN DirectionOf(Cross(VSub(object.b, object.a), VSub(object.d, object.a)))
    ELSE DirectionOf(Cross(VSub(object.b, object.a), VSub(object.c, object.a)))

\* Object::get_bounding_box
get_bounding_box(object) == component_wise_range(Vertices(object))

\* t > 0.0 for the program's t.  The model's t is measured from position / den
\* in lengths of direction, so the program's t is t * |direction| - off.
Ahead(r, t) ==
    /\ t[1] > 0
    /\ \/ r.off = 0
       \/ t[1] > t[2]
       \/ t[1] * t[1] * Dot(r.direction, r.direction) > r.off * r.off * t[2] * t[2]

\* Object::get_intersection: Some(t) with t > 0 when the ray meets the front
\* side of the primitive inside its edges.  (On an edge the program's test
\* is_sign_positive turns on the sign of a floating-point zero.)
get_intersection(object, r) ==
    LET normal == NormalOf(object)
        dn == Dot(r.direction, normal)
    IN  IF dn >= 0 THEN None
        ELSE
        LET t == Rat(Dot(VSub(VScale(r.den, object.a), r.position), normal), r.den * dn)
        IN  IF ~Ahead(r, t) THEN None
            ELSE
            LET \* the hit point, times r.den * t[2]
                scale == r.den * t[2]
                point == VAdd(VScale(t[2], r.position), VScale(t[1] * r.den, r.direction))
                vs == Vertices(object)
                n == Len(vs)
                inside ==
                    \A k \in 1..n :
                        LET from == vs[k]
                            to == vs[(k % n) + 1]
                        IN  Dot(Cross(VSub(to, from), VSub(point, VScale(scale, from))),
                                normal) >= 0
            IN  IF inside THEN Some(t) ELSE None

----------------------------------------------------------------------------
(* bvh.rs: AABB *)

\* AABBNew gone wrong: only the x axis is asserted
AABBNewLax(min, max) ==
    IF min[1] <= max[1]
    THEN [min |-> min, max |-> max]
    ELSE [panic |-> "AABB::new"]

\* AABB::new, whose assertions abort the program when min > max on an axis
AABBNew(min, max) ==
    IF \A i \in Axes : min[i] <= max[i]
    THEN [min |-> min, max |-> max]
    ELSE [panic |-> "AABB::new"]

\* AABB::empty
AABBEmpty == AABBNew(<<0, 0, 0>>, <<0, 0, 0>>)

\* Interval::new
IntervalNew(a, b, x, den, slope) ==
    IF slope = 0
    THEN IF a * den <= x /\ x <= b * den
         THEN [kind |-> "Infinite"]
         ELSE [kind |-> "Empty"]
    ELSE LET ta == Rat(a * den - x, den * slope)
             tb == Rat(b * den - x, den * slope)
         IN  [kind |-> "Closed", lo |-> RMin(ta, tb), hi |-> RMax(ta, tb)]

\* IntervalIntersect gone wrong: intervals that share one parameter only count
\* as apart
IntervalIntersectOpen(self, other) ==
    CASE self.kind = "Infinite" -> other
      [] self.kind = "Empty" -> [kind |-> "Empty"]
      [] self.kind = "Closed" ->
            CASE other.kind = "Infinite" -> self
              [] other.kind = "Empty" -> [kind |-> "Empty"]
              [] other.kind = "Closed" ->
                    LET x == RMax(self.lo, other.lo)
                        y == RMin(self.hi, other.hi)
                    IN  IF RLt(x, y)
                        THEN [kind |-> "Closed", lo |-> x, hi |-> y]
                        ELSE [kind |-> "Empty"]

\* Interval::intersect
IntervalIntersect(self, other) ==
    CASE self.kind = "Infinite" -> other
      [] self.kind = "Empty" -> [kind |-> "Empty"]
      [] self.kind = "Closed" ->
            CASE other.kind = "Infinite" -> self
              [] other.kind = "Empty" -> [kind |-> "Empty"]
              [] other.kind = "Closed" ->
                    LET x == RMax(self.lo, other.lo)
                        y == RMin(self.hi, other.hi)
                    IN  IF RLe(x, y)
                        THEN [kind |-> "Closed", lo |-> x, hi |-> y]
                        ELSE [kind |-> "Empty"]

\* IntervalT gone wrong: a box the ray starts inside of counts as missed
IntervalTAhead(t_interval) ==
    CASE t_interval.kind = "Closed" ->
            IF t_interval.lo[1] < 0 THEN None ELSE Some(t_interval.lo)
      [] t_interval.kind = "Empty" -> None
      [] t_interval.kind = "Infinite" -> [panic |-> "unreachable"]

\* AABB::intersect, bvh.rs 113-130: the parameter taken from the interval of
\* parameters at which the ray is inside the box
IntervalT(t_interval) ==
    CASE t_interval.kind = "Closed" ->
            IF t_interval.lo[1] < 0 THEN Some(t_interval.hi) ELSE Some(t_interval.lo)
      [] t_interval.kind = "Empty" -> None
      [] t_interval.kind = "Infinite" -> [panic |-> "unreachable"]

\* AABB::intersect
AABBIntersect(aabb, r) ==
    LET iv(i) == IntervalNew(aabb.min[i], aabb.max[i], r.position[i], r.den, r.direction[i])
    IN  IntervalT(IntervalIntersect(iv(1), IntervalIntersect(iv(2), iv(3))))

\* AABBUnion gone wrong: the box of the first member stands for all of them
AABBUnionFirst(aabbs) ==
    IF Len(aabbs) = 0 THEN AABBEmpty ELSE aabbs[1]

\* AABB::union
AABBUnion(aabbs) ==
    IF Len(aabbs) = 0
    THEN AABBEmpty
    ELSE LET points == Tab([k \in 1..(2 * Len(aabbs)) |->
                                IF k % 2 = 1 THEN aabbs[(k + 1) \div 2].min
                                ELSE aabbs[k \div 2].max])
             mm == component_wise_range(points)
         IN  AABBNew(mm[1], mm[2])

\* AABB::surface_area
surface_area(aabb) ==
    LET diff == VSub(aabb.max, aabb.min)
    IN  2 * diff[1] * diff[2] + 2 * diff[1] * diff[3] + 2 * diff[3] * diff[2]

ObjectAABB(object) ==
    LET bb == get_bounding_box(object) IN AABBNew(bb[1], bb[2])

----------------------------------------------------------------------------
(* bvh.rs: splitting *)

IsPanic(x) == "panic" \in DOMAIN x

SplitTypes == {"Basic", "SAH"}

N_BUCKETS == 12

\* Point3::centroid(&[min, max]) of the bounding box; vertex coordinates are
\* even, so the midpoint is an integer
Centroid(object) ==
    LET bb == get_bounding_box(object)
    IN  [i \in Axes |-> (bb[1][i] + bb[2][i]) \div 2]

\* MaxDim gone wrong: z is compared with the range on x, not with the largest so far
MaxDimStale(diff) ==
    LET dim1 == IF diff[2] > diff[1] THEN 2 ELSE 1
    IN  IF diff[3] > diff[1] THEN 3 ELSE dim1

\* bvh.rs 208-216: the axis with the largest centroid range
MaxDim(diff) ==
    LET dim1 == IF diff[2] > diff[1] THEN 2 ELSE 1
        max1 == IF diff[2] > diff[1] THEN diff[2] ELSE diff[1]
    IN  IF diff[3] > max1 THEN 3 ELSE dim1

\* bvh.rs 256-260: the bucket of a centroid coordinate c.  With dim_range = 0
\* the quotient is 0/0 = NaN and the index is whatever `NaN as i32` yields.
BucketIndex(c, lo, dim_range, nc) ==
    IF dim_range = 0
    THEN nc
    ELSE LET b == (N_BUCKETS * (c - lo)) \div dim_range
         IN  IF b = N_BUCKETS THEN b - 1 ELSE b

\* bvh.rs 266-269: a bucket's box, folded from AABB::default() over its members
RECURSIVE BucketAabb(_)
BucketAabb(members) ==
    IF Len(members) = 0
    THEN AABBEmpty
    ELSE AABBUnion(<<BucketAabb(SubSeq(members, 1, Len(members) - 1)),
                     ObjectAABB(members[Len(members)])>>)

\* an f32 cost: a number over the parent's area, +inf or NaN
CostLess(p, q) ==
    CASE p.kind = "nan" \/ q.kind = "nan" -> FALSE
      [] p.kind = "inf" -> FALSE
      [] q.kind = "inf" -> TRUE
      [] OTHER -> p.num < q.num

\* bvh.rs 296-304: the first index of least cost
RECURSIVE MinCostIndex(_, _, _)
MinCostIndex(costs, i, best) ==
    IF i > Len(costs) THEN best
    ELSE MinCostIndex(costs, i + 1, IF CostLess(costs[i], costs[best]) THEN i ELSE best)

\* bvh.rs 251-271: the buckets, b_inds[i] being the bucket of objs[i]
\* (buckets[j + 1] is the program's buckets[j])
SahBuckets(objs, b_inds) ==
    Tab([j \in 1..N_BUCKETS |->
        LET obj_indexes == SelectSeq([i \in 1..Len(objs) |-> i], LAMBDA i : b_inds[i] = j - 1)
        IN  [count |-> Len(obj_indexes),
             aabb |-> BucketAabb(Tab([k \in 1..Len(obj_indexes) |-> objs[obj_indexes[k]]])),
             obj_indexes |-> obj_indexes]])

RECURSIVE SumCount(_, _, _)
SumCount(buckets, from, to) ==
    IF from > to THEN 0 ELSE buckets[from + 1].count + SumCount(buckets, from + 1, to)

\* bvh.rs 276-292: the cost of splitting after bucket i
SahCost(buckets, global_bb, i) ==
    LET bb_left == AABBUnion(Tab([k \in 1..(i + 1) |-> buckets[k].aabb]))
        count_left == SumCount(buckets, 0, i)
        bb_right == AABBUnion(Tab([k \in 1..(N_BUCKETS - 1 - i) |-> buckets[i + 1 + k].aabb]))
        count_right == SumCount(buckets, i + 1, N_BUCKETS - 1)
        num == count_left * surface_area(bb_left) + count_right * surface_area(bb_right)
        area == surface_area(global_bb)
    IN  IF area # 0 THEN [kind |-> "num", num |-> num]
        ELSE IF num = 0 THEN [kind |-> "nan"] ELSE [kind |-> "inf"]

\* SahPartition gone wrong: the members of bucket min_cost_i go to neither half
SahPartitionStrict(objs, b_inds, min_cost_i) ==
    LET idx == [i \in 1..Len(objs) |-> i]
        li == SelectSeq(idx, LAMBDA i : b_inds[i] < min_cost_i)
        ri == SelectSeq(idx, LAMBDA i : b_inds[i] > min_cost_i)
    IN  [left |-> Tab([k \in 1..Len(li) |-> objs[li[k]]]),
         right |-> Tab([k \in 1..Len(ri) |-> objs[ri[k]]]),
         min_cost_i |-> min_cost_i]

\* bvh.rs 306-320: the members of the buckets up to min_cost_i, and the others
SahPartition(objs, b_inds, min_cost_i) ==
    LET idx == [i \in 1..Len(objs) |-> i]
        li == SelectSeq(idx, LAMBDA i : b_inds[i] <= min_cost_i)
        ri == SelectSeq(idx, LAMBDA i : ~(b_inds[i] <= min_cost_i))
    IN  [left |-> Tab([k \in 1..Len(li) |-> objs[li[k]]]),
         right |-> Tab([k \in 1..Len(ri) |-> objs[ri[k]]]),
         min_cost_i |-> min_cost_i]

\* bvh_split_by_sah
bvh_split_by_sah(objs, centroids, global_bb, dim, nc) ==
    LET dim_range == global_bb.max[dim] - global_bb.min[dim]
        b_inds == Tab([i \in 1..Len(objs) |->
                          BucketIndex(centroids[i][dim], global_bb.min[dim], dim_range, nc)])
    IN  IF \E i \in 1..Len(objs) : b_inds[i] < 0 \/ b_inds[i] >= N_BUCKETS
        THEN [panic |-> "assert b_ind"]
        ELSE
        LET buckets == SahBuckets(objs, b_inds)
            costs == Tab([k \in 1..(N_BUCKETS - 1) |-> SahCost(buckets, global_bb, k - 1)])
            min_cost_i == MinCostIndex(costs, 1, 1) - 1
        IN  SahPartition(objs, b_inds, min_cost_i)

\* bvh_split_in gone wrong: the members at the midpoint go left as well
bvh_split_inLax(objs, split_type, nc, centroids, min_c, max_c) ==
    LET maxdim == MaxDim(VSub(max_c, min_c))
        below(object) == 2 * Centroid(object)[maxdim] <= max_c[maxdim] + min_c[maxdim]
    IN  IF Len(objs) <= 4 \/ split_type = "Basic"
        THEN [left |-> SelectSeq(objs, LAMBDA o : below(o)),
              right |-> SelectSeq(objs, LAMBDA o : ~below(o))]
        ELSE bvh_split_by_sah(objs, centroids, AABBNew(min_c, max_c), maxdim, nc)

\* bvh_split from line 208 on: centroids and their range (min_c, max_c) are known
bvh_split_in(objs, split_type, nc, centroids, min_c, max_c) ==
    LET maxdim == MaxDim(VSub(max_c, min_c))
        \* c < (max_c + min_c) / 2, the midpoint possibly a half
        below(object) == 2 * Centroid(object)[maxdim] < max_c[maxdim] + min_c[maxdim]
    IN  IF Len(objs) <= 4 \/ split_type = "Basic"
        THEN [left |-> SelectSeq(objs, LAMBDA o : below(o)),
              right |-> SelectSeq(objs, LAMBDA o : ~below(o))]
        ELSE bvh_split_by_sah(objs, centroids, AABBNew(min_c, max_c), maxdim, nc)

\* bvh_split from line 206 on: the centroids are known
bvh_split_of(objs, split_type, nc, centroids, mm) ==
    bvh_split_in(objs, split_type, nc, centroids, mm[1], mm[2])

\* bvh_split (objs has two members or more)
bvh_split(objs, split_type, nc) ==
    LET centroids == Tab([i \in 1..Len(objs) |-> Centroid(objs[i])])
    IN  bvh_split_of(objs, split_type, nc, centroids, component_wise_range(centroids))

\* bvh.rs 276-292: the costs of the planes after the buckets 0..10
SahCosts(buckets, global_bb) ==
    Tab([k \in 1..(N_BUCKETS - 1) |-> SahCost(buckets, global_bb, k - 1)])

\* the locals of bvh_split_by_sah once the buckets are filled
SahFilled(b_inds, buckets, global_bb) ==
    [b_inds |-> b_inds, buckets |-> buckets, costs |-> SahCosts(buckets, global_bb)]

\* the locals of bvh_split_by_sah: the bucket indexes and, unless an assertion
\* on them failed, the buckets and the costs
SahLocalsOf(objs, b_inds, global_bb) ==
    IF \E i \in 1..Len(objs) : b_inds[i] < 0 \/ b_inds[i] >= N_BUCKETS
    THEN [b_inds |-> b_inds, buckets |-> <<>>, costs |-> <<>>]
    ELSE SahFilled(b_inds, SahBuckets(objs, b_inds), global_bb)

\* bvh.rs 254-260: the bucket indexes of the members
SahLocals(objs, centroids, global_bb, dim, nc) ==
    SahLocalsOf(objs,
                Tab([i \in 1..Len(objs) |->
                        BucketIndex(centroids[i][dim], global_bb.min[dim],
                                    global_bb.max[dim] - global_bb.min[dim], nc)]),
                global_bb)

\* the locals of bvh_split from line 208 on: the axis, the branch taken and
\* the locals of bvh_split_by_sah when it is called
SplitLocalsIn(objs, split_type, nc, centroids, min_c, max_c) ==
    IF Len(objs) <= 4 \/ split_type = "Basic"
    THEN [maxdim |-> MaxDim(VSub(max_c, min_c)), sah |-> FALSE,
          b_inds |-> <<>>, buckets |-> <<>>, costs |-> <<>>]
    ELSE [maxdim |-> MaxDim(VSub(max_c, min_c)), sah |-> TRUE]
         @@ SahLocals(objs, centroids, AABBNew(min_c, max_c), MaxDim(VSub(max_c, min_c)), nc)

SplitLocalsOf(objs, split_type, nc, centroids, mm) ==
    SplitLocalsIn(objs, split_type, nc, centroids, mm[1], mm[2])

\* the locals of bvh_split
SplitLocals(objs, split_type, nc) ==
    SplitLocalsOf(objs, split_type, nc, Tab([i \in 1..Len(objs) |-> Centroid(objs[i])]),
                  component_wise_range(Tab([i \in 1..Len(objs) |-> Centroid(objs[i])])))

----------------------------------------------------------------------------
(* bvh.rs: the tree *)

\* BvhTree::new.  bvh.rs 345 passes SplitType::SAH; the policy is a parameter
\* here so that the Basic policy of bvh_split can be built as well.  A split
\* that leaves one half empty hands the whole list to the recursive call, which
\* splits it the same way again: the recursion never ends and the stack overflows.
RECURSIVE BvhTreeNew(_, _, _)
RECURSIVE BvhTreeNode(_, _, _, _)

\* BvhTreeNode gone wrong: the box of the node is the box of its left child
BvhTreeNodeLeftBox(objs, s, split_type, nc) ==
    IF IsPanic(s) THEN [panic |-> s.panic]
    ELSE IF Len(s.left) = 0 \/ Len(s.right) = 0 THEN [panic |-> "stack overflow"]
    ELSE
    LET left == BvhTreeNew(s.left, split_type, nc)
        right == BvhTreeNew(s.right, split_type, nc)
    IN  IF IsPanic(left) THEN left
        ELSE IF IsPanic(right) THEN right
        ELSE [kind |-> "Node",
              aabb |-> left.aabb,
              left |-> left,
              right |-> right,
              size |-> Len(objs)]

\* bvh.rs 345-351: the node over the halves s of objs
BvhTreeNode(objs, s, split_type, nc) ==
    IF IsPanic(s) THEN [panic |-> s.panic]
    ELSE IF Len(s.left) = 0 \/ Len(s.right) = 0 THEN [panic |-> "stack overflow"]
    ELSE
    LET left == BvhTreeNew(s.left, split_type, nc)
        right == BvhTreeNew(s.right, split_type, nc)
    IN  IF IsPanic(left) THEN left
        ELSE IF IsPanic(right) THEN right
        ELSE [kind |-> "Node",
              aabb |-> AABBUnion(<<left.aabb, right.aabb>>),
              left |-> left,
              right |-> right,
              size |-> Len(objs)]

BvhTreeNew(objs, split_type, nc) ==
    IF Len(objs) <= 1
    THEN [kind |-> "Leaf",
          aabb |-> AABBUnion(Tab([i \in 1..Len(objs) |-> ObjectAABB(objs[i])])),
          objects |-> objs,
          size |-> Len(objs)]
    ELSE BvhTreeNode(objs, bvh_split(objs, split_type, nc), split_type, nc)

\* BvhTree::get_num_objects
get_num_objects(t) == t.size

\* Bvh::new: build, then assert_eq!(bvh_tree.get_num_objects(), num_objects)
\* bvh.rs 20: assert_eq!(bvh_tree.get_num_objects(), num_objects)
AssertNumObjects(bvh_tree, num_objects) ==
    IF IsPanic(bvh_tree) THEN bvh_tree
    ELSE IF get_num_objects(bvh_tree) # num_objects THEN [panic |-> "assert_eq num_objects"]
    ELSE bvh_tree

BvhNew(objs, split_type, nc) ==
    AssertNumObjects(BvhTreeNew(objs, split_type, nc), Len(objs))

\* MinBy gone wrong: of the pairs of least t the last one is kept
RECURSIVE MinByLast(_)
MinByLast(pairs) ==
    IF Len(pairs) = 0 THEN None
    ELSE IF Len(pairs) = 1 THEN Some(pairs[1])
    ELSE LET rest == MinByLast(Tail(pairs)).v
         IN  IF RLe(rest.t, pairs[1].t) THEN Some(rest) ELSE Some(pairs[1])

\* Iterator::min_by on (object, t) pairs: the first pair of least t
RECURSIVE MinBy(_)
MinBy(pairs) ==
    IF Len(pairs) = 0 THEN None
    ELSE IF Len(pairs) = 1 THEN Some(pairs[1])
    ELSE LET rest == MinBy(Tail(pairs)).v
         IN  IF RLt(rest.t, pairs[1].t) THEN Some(rest) ELSE Some(pairs[1])

\* the filter_map over a list of objects: the (object, t) pairs the ray hits
FilterSome(objs, ts) ==
    LET idx == SelectSeq([i \in 1..Len(objs) |-> i], LAMBDA i : ts[i].some)
    IN  Tab([k \in 1..Len(idx) |-> [object |-> objs[idx[k]].id, t |-> ts[idx[k]].v]])

HitPairs(objs, r) ==
    FilterSome(objs, Tab([i \in 1..Len(objs) |-> get_intersection(objs[i], r)]))

\* BvhTree::get_closest_intersection
RECURSIVE BvhClosest(_, _)
BvhClosest(t, r) ==
    IF ~AABBIntersect(t.aabb, r).some THEN None
    ELSE IF t.kind = "Node"
    THEN LET l == BvhClosest(t.left, r)
             rr == BvhClosest(t.right, r)
         IN  MinBy((IF l.some THEN <<l.v>> ELSE <<>>) \o (IF rr.some THEN <<rr.v>> ELSE <<>>))
    ELSE MinBy(HitPairs(t.objects, r))

\* World::get_closest_intersection: the scan of the whole object list
get_closest_intersection(objs, r) == MinBy(HitPairs(objs, r))

----------------------------------------------------------------------------
(* utils.rs, color.rs *)

\* utils::clamp
clamp(x, low, high) == IF RLt(x, low) THEN low ELSE IF RLt(high, x) THEN high ELSE x

\* Color::rgba: every channel clamped to [0, 1]
rgba(r, g, b, a) ==
    <<clamp(r, <<0, 1>>, <<1, 1>>), clamp(g, <<0, 1>>, <<1, 1>>),
      clamp(b, <<0, 1>>, <<1, 1>>), clamp(a, <<0, 1>>, <<1, 1>>)>>

\* Color::rgb
rgb(r, g, b) == rgba(r, g, b, <<1, 1>>)

\* f32 values beyond the rationals: NaN, inf and -inf.  A comparison with NaN
\* is false, as RLt is of <<0, 0>> and anything.
NaN == <<0, 0>>
Inf == <<1, 0>>
NegInf == <<-1, 0>>

F32(n, d) == IF n = 0 /\ d = 0 THEN NaN ELSE Rat(n, d)

\* f32 * f32: 0 * inf is NaN
F32Mul(p, q) == F32(p[1] * q[1], p[2] * q[2])

\* f32 + f32: inf + -inf is NaN
F32Add(p, q) ==
    IF p[2] = 0 /\ q[2] = 0
    THEN IF p = q THEN p ELSE NaN
    ELSE F32(p[1] * q[2] + q[1] * p[2], p[2] * q[2])

\* 1 / f32: 1 / 0 is inf
F32Recip(q) ==
    IF q[1] = 0 THEN IF q[2] = 0 THEN NaN ELSE Inf
    ELSE IF q[2] = 0 THEN <<0, 1>>
    ELSE Rat(q[2], q[1])

\* f32 / f32: 0 / 0 is NaN
F32Div(p, q) == F32Mul(p, F32Recip(q))

\* Color + Color, Color * Color, Color * f32, f32 * Color, Color / f32: every
\* result is made by Color::rgba
ColorAdd(a, b) ==
    rgba(F32Add(a[1], b[1]), F32Add(a[2], b[2]), F32Add(a[3], b[3]), F32Add(a[4], b[4]))
ColorMul(a, b) ==
    rgba(F32Mul(a[1], b[1]), F32Mul(a[2], b[2]), F32Mul(a[3], b[3]), F32Mul(a[4], b[4]))
ColorMulF32(a, rhs) ==
    rgba(F32Mul(a[1], rhs), F32Mul(a[2], rhs), F32Mul(a[3], rhs), F32Mul(a[4], rhs))
F32MulColor(lhs, a) == ColorMulF32(a, lhs)
ColorDivF32(a, rhs) ==
    rgba(F32Div(a[1], rhs), F32Div(a[2], rhs), F32Div(a[3], rhs), F32Div(a[4], rhs))

\* Color::to_vec
to_vec(color) == color

\* Color::get_rgb: (channel * 255.0) as u8, which truncates
get_rgb(color) == [i \in 1..3 |-> (color[i][1] * 255) \div color[i][2]]

\* Vector4 + Vector4 and Vector4 / f32, the fold and the mean in render
RAdd(p, q) == Rat(p[1] * q[2] + q[1] * p[2], p[2] * q[2])
V4Add(a, b) == [i \in 1..4 |-> RAdd(a[i], b[i])]
V4Div(a, n) == [i \in 1..4 |-> Rat(a[i][1], a[i][2] * n)]

\* utils::reflect, for a normal of any length: the direction of
\* v - 2 (v . n) n / |n|^2
reflect(v, normal) ==
    Primitive(VSub(VScale(Dot(normal, normal), v), VScale(2 * Dot(v, normal), normal)))

----------------------------------------------------------------------------
(* ray.rs, object.rs, material.rs, world.rs: the recursive tracer *)

\* Ray::get_point_on_ray: the point position / den, in lowest terms
get_point_on_ray(r, t) ==
    LET p == VAdd(VScale(t[2], r.position), VScale(t[1] * r.den, r.direction))
        d == r.den * t[2]
        g == Gcd(Gcd(Gcd(Abs(p[1]), Abs(p[2])), Abs(p[3])), d)
    IN  [position |-> [i \in Axes |-> p[i] \div g], den |-> d \div g]

\* Object::get_normal
get_normal(object) == NormalOf(object)

\* Object::get_uv along one edge: (to - a) . (point - a) / |to - a|^2
EdgeCoordinate(a, to, point) ==
    Rat(Dot(VSub(to, a), VSub(point.position, VScale(point.den, a))),
        point.den * Dot(VSub(to, a), VSub(to, a)))

\* Object::get_uv
get_uv(object, point) ==
    <<EdgeCoordinate(object.a, object.b, point),
      EdgeCoordinate(object.a, IF object.type = "Quad" THEN object.d ELSE object.c, point)>>

\* the texel index of a wrapped coordinate: u.rem_euclid(1.0), times the size,
\* truncated, clamped to [0, size - 1] and cast to u32 (a negative value to 0)
TexelIndex(u, size) ==
    LET x == ((u[1] % u[2]) * size) \div u[2]
        c == IF x < 0 THEN 0 ELSE IF x > size - 1 THEN size - 1 ELSE x
    IN  IF c < 0 THEN 0 ELSE c

\* RgbImage::get_pixel, which panics outside the image
get_pixel(buf, x, y) ==
    IF x < buf.width /\ y < buf.height
    THEN [color |-> rgb(<<buf.texels[y + 1][x + 1][1], 255>>,
                        <<buf.texels[y + 1][x + 1][2], 255>>,
                        <<buf.texels[y + 1][x + 1][3], 255>>)]
    ELSE [panic |-> "Image index out of bounds"]

\* TextureType::sample: the surface color, or the panic of get_pixel
sample(texture_type, object, intersection_point) ==
    CASE texture_type.kind = "Texture" ->
            get_pixel(texture_type.buf,
                      TexelIndex(get_uv(object, intersection_point)[1], texture_type.buf.width),
                      TexelIndex(get_uv(object, intersection_point)[2], texture_type.buf.height))
      [] texture_type.kind = "Flat" -> [color |-> texture_type.color]
      [] texture_type.kind = "None" -> [color |-> rgb(<<1, 2>>, <<1, 2>>, <<1, 2>>)]

\* the work of one call of trace_ray: nearest-hit queries, shadow tests,
\* material evaluations, and for each material evaluation what Material::get_color
\* was called with
Work(queries, shadow_tests, materials) ==
    [queries |-> queries, shadow_tests |-> shadow_tests, materials |-> materials,
     lit |-> <<>>]

\* the work, with a call of Material::get_color on record
Lit(work, incoming_ray, object, point, lights, max_depth) ==
    [work EXCEPT !.lit = Append(@, [ray |-> incoming_ray, object |-> object.id,
                                    point |-> point, lights |-> lights,
                                    max_depth |-> max_depth])]

\* what a call of trace_ray does next: it returns a color, it calls trace_ray,
\* or it panics
Returns(color, work) == [kind |-> "return", color |-> color, work |-> work]
Calls(r, max_depth, work) ==
    [kind |-> "call", frame |-> [ray |-> r, max_depth |-> max_depth], work |-> work]
Panics(p, work) == [kind |-> "panic", panic |-> p.panic, work |-> work]

\* shadow_t + epsilon < light_to_object_t on a light ray of direction v, the
\* point lying at the parameter reach and the first hit at shadow_t
is_in_shadow(shadow_t, reach, v) ==
    LET gap == Rat(reach[1] * shadow_t[2] - shadow_t[1] * reach[2], reach[2] * shadow_t[2])
    IN  /\ gap[1] > 0
        /\ \/ gap[1] > gap[2]
           \/ gap[1] * gap[1] * Dot(v, v) > gap[2] * gap[2]

\* the closure of the filter over the lights, Light::in_shadow: the light ray
\* runs from the light to the point, v being point - light; a light ray of no
\* direction meets nothing
Illuminates(w, light, point, v) ==
    IF v = <<0, 0, 0>> THEN FALSE
    ELSE LET g == Gcd(Gcd(Abs(v[1]), Abs(v[2])), Abs(v[3]))
             light_ray == NewRay(light.position, Primitive(v))
             shadow == get_closest_intersection(w.objects, light_ray)
         IN  IF shadow.some
             THEN ~is_in_shadow(shadow.v.t, Rat(g, point.den), Primitive(v))
             ELSE FALSE

\* Light::reaches_point, for the ambient and the point lights
reaches_point(w, light, point) ==
    CASE light.light_type = "Ambient" -> TRUE
      [] light.light_type = "Point" ->
            Illuminates(w, light, point, VSub(point.position, VScale(point.den, light.position)))

\* illuminating_lights gone wrong: the lights are handed on unfiltered
illuminating_lightsUnfiltered(w, point) == w.lights

\* the lights that the filter of trace_ray keeps
illuminating_lights(w, point) ==
    SelectSeq(w.lights, LAMBDA light : reaches_point(w, light, point))

\* the lights whose test is a nearest-hit query on a light ray
CastShadows(lights) == SelectSeq(lights, LAMBDA light : light.light_type # "Ambient")

\* What an evaluation of a material comes to, given the colors that the calls
\* of trace_ray it has made so far have returned: the color, and the returned
\* colors it has not used; or the call of trace_ray it makes next.
Evaluated(color, results) == [kind |-> "return", color |-> color, results |-> results]
Evaluating(r, max_depth) == [kind |-> "call", ray |-> r, max_depth |-> max_depth]

\* MaterialType::get_color.  A Reflective material offsets the reflected ray
\* by 1e-4 and returns what trace_ray returns for it; a Composition folds
\* coefficient * color over its materials, from the color (0, 0, 0, 0)
RECURSIVE MaterialTypeGetColor(_, _, _, _, _, _, _, _)
RECURSIVE CompositionFold(_, _, _, _, _, _, _, _, _)

\* CompositionNext gone wrong: the coefficient is left out
CompositionNextUnweighted(materials, acc, surface_color, incoming_ray, point, object, lights, max_depth, evaluation) ==
    IF evaluation.kind = "call" THEN evaluation
    ELSE CompositionFold(Tail(materials), ColorAdd(acc, evaluation.color),
                         surface_color, incoming_ray, point, object, lights, max_depth,
                         evaluation.results)

\* the fold goes on with the next material once the color of this one is known
CompositionNext(materials, acc, surface_color, incoming_ray, point, object, lights, max_depth, evaluation) ==
    IF evaluation.kind = "call" THEN evaluation
    ELSE CompositionFold(Tail(materials),
                         ColorAdd(acc, F32MulColor(materials[1].coefficient, evaluation.color)),
                         surface_color, incoming_ray, point, object, lights, max_depth,
                         evaluation.results)

CompositionFold(materials, acc, surface_color, incoming_ray, point, object, lights, max_depth, results) ==
    IF materials = <<>> THEN Evaluated(acc, results)
    ELSE CompositionNext(materials, acc, surface_color, incoming_ray, point, object, lights,
                         max_depth,
                         MaterialTypeGetColor(materials[1].material, surface_color,
                                              incoming_ray, point, object, lights,
                                              max_depth, results))

MaterialTypeGetColor(material_type, surface_color, incoming_ray, point, object, lights, max_depth, results) ==
    CASE material_type.kind = "Composition" ->
            CompositionFold(material_type.materials, rgba(<<0, 1>>, <<0, 1>>, <<0, 1>>, <<0, 1>>),
                            surface_color, incoming_ray, point, object, lights, max_depth,
                            results)
      [] material_type.kind = "Reflective" ->
            IF results = <<>>
            THEN Evaluating([position |-> point.position, den |-> point.den,
                             direction |-> reflect(incoming_ray.direction, get_normal(object)),
                             off |-> 1],
                            max_depth)
            ELSE Evaluated(Head(results), Tail(results))
      [] material_type.kind = "None" -> Evaluated(rgb(<<1, 2>>, <<1, 2>>, <<1, 2>>), results)

\* the evaluation as the next thing the call of trace_ray does
Proceeds(evaluation, work) ==
    IF evaluation.kind = "call"
    THEN Calls(evaluation.ray, evaluation.max_depth, work)
    ELSE Returns(evaluation.color, work)

\* Material::get_color: sample the texture, then the material
MaterialGetColor(material, sampled, incoming_ray, point, object, lights, max_depth, results, work) ==
    IF IsPanic(sampled)
    THEN Panics(sampled, Lit(work, incoming_ray, object, point, lights, max_depth))
    ELSE Proceeds(MaterialTypeGetColor(material.material_type, sampled.color, incoming_ray,
                                       point, object, lights, max_depth, results),
                  Lit(work, incoming_ray, object, point, lights, max_depth))

\* Shade gone wrong: the budget is handed on as it is
ShadeKeepsBudget(w, frame, object, point) ==
    MaterialGetColor(object.material, sample(object.material.texture_type, object, point),
                     frame.ray, point, object, illuminating_lights(w, point),
                     frame.max_depth, frame.results,
                     Work(1 + Len(CastShadows(w.lights)), Len(CastShadows(w.lights)), 1))

\* trace_ray from the hit on: the lights that reach the point, then
\* object.get_color with the budget less one
Shade(w, frame, object, point) ==
    MaterialGetColor(object.material, sample(object.material.texture_type, object, point),
                     frame.ray, point, object, illuminating_lights(w, point),
                     frame.max_depth - 1, frame.results,
                     Work(1 + Len(CastShadows(w.lights)), Len(CastShadows(w.lights)), 1))

\* HitOrMiss gone wrong: the hit is unwrapped without a look at it
HitOrMissUnwrap(w, frame, closest) ==
    IF closest.some
    THEN Shade(w, frame, w.objects[closest.v.object],
               get_point_on_ray(frame.ray, closest.v.t))
    ELSE Panics([panic |-> "called Option::unwrap() on a None value"], Work(1, 0, 0))

\* trace_ray once the budget is known not to be 0: the nearest hit is shaded,
\* no hit is the background color
HitOrMiss(w, frame, closest) ==
    IF closest.some
    THEN Shade(w, frame, w.objects[closest.v.object],
               get_point_on_ray(frame.ray, closest.v.t))
    ELSE Returns(w.background_color, Work(1, 0, 0))

\* trace_ray gone wrong: the budget is looked at after the nearest-hit query
trace_rayQueriesFirst(w, frame) ==
    IF frame.max_depth = 0
    THEN Returns(w.background_color, Work(1, 0, 0))
    ELSE HitOrMiss(w, frame, get_closest_intersection(w.objects, frame.ray))

\* World::trace_ray
trace_ray(w, frame) ==
    IF frame.max_depth = 0
    THEN Returns(w.background_color, Work(0, 0, 0))
    ELSE HitOrMiss(w, frame, get_closest_intersection(w.objects, frame.ray))

----------------------------------------------------------------------------
(* The primitives and rays the inputs are drawn from *)

\* an axis-parallel quad in the plane z, facing -z, vertices in winding order
QuadZ(x0, x1, y0, y1, z) ==
    [type |-> "Quad", a |-> <<x0, y0, z>>, b |-> <<x0, y1, z>>,
     c |-> <<x1, y1, z>>, d |-> <<x1, y0, z>>]

\* Vertex coordinates are even and the rays below meet the planes at odd
\* coordinates, so no hit point lies on an edge.  Primitives 1, 2 and 3 overlap
\* in one plane; primitives 5 and 6 have the same centroid.
Universe ==
    << QuadZ(6, 14, 2, 8, 2),
       QuadZ(6, 12, 6, 14, 2),
       QuadZ(12, 20, 2, 4, 2),
       QuadZ(4, 6, 12, 16, 2),
       QuadZ(6, 10, 4, 6, 4),
       [type |-> "Triangle", a |-> <<6, 4, 4>>, b |-> <<6, 6, 4>>, c |-> <<10, 4, 4>>] >>

\* the sequences of members of s in their order of s (its subsequences)
RECURSIVE SubSeqs(_)
SubSeqs(s) ==
    IF Len(s) = 0 THEN {<<>>}
    ELSE LET rest == SubSeqs(Tail(s))
         IN  rest \cup {<<Head(s)>> \o q : q \in rest}

Reverse(s) == [i \in 1..Len(s) |-> s[Len(s) + 1 - i]]

\* the lists of at most MaxObjects different primitives, in the order of
\* Universe or against it, each primitive given its position in the list as
\* identity
InputLists ==
    LET idx == Tab([i \in 1..Len(Universe) |-> i])
        picks == {q \in SubSeqs(idx) \cup SubSeqs(Tab(Reverse(idx))) : Len(q) <= MaxObjects}
    IN  {Tab([i \in 1..Len(q) |-> [id |-> i] @@ Universe[q[i]]]) : q \in picks}

\* quads in the plane z = 4 around one centre: their bounding boxes differ
\* and their centroids are all (8, 6, 4)
Concentric(k) == QuadZ(8 - 2 * k, 8 + 2 * k, 6 - 2 * k, 6 + 2 * k, 4)

\* a small quad with its centroid at c
Tile(c) == QuadZ(c[1] - 1, c[1] + 1, c[2] - 1, c[2] + 1, c[3])

\* the steps from one tile to the next: the centroid ranges of a row of tiles
\* are largest on one axis, on two or on all three
Strides ==
    {<<4, 2, 0>>, <<2, 4, 0>>, <<2, 0, 4>>, <<4, 4, 0>>, <<0, 4, 4>>, <<4, 0, 4>>,
     <<4, 4, 4>>, <<2, 4, 4>>, <<0, 0, 2>>}

\* six tiles along x, two close together, one apart and three close together
Clustered ==
    Tab([i \in 1..6 |-> [id |-> i] @@
            Tile(<<<<11, 3, 3>>, <<13, 5, 3>>, <<21, 3, 3>>, <<31, 5, 3>>, <<33, 3, 3>>, <<35, 5, 3>>>>[i])])

\* the lists bvh_split is called on: the input lists of one primitive or more,
\* lists of primitives with one centroid, rows of tiles of equal stride and
\* the clustered tiles
SplitLists ==
    {q \in InputLists : Len(q) >= 1}
    \cup {Clustered}
    \cup {Tab([i \in 1..n |-> [id |-> i] @@ Concentric(i)]) : n \in 2..(MaxObjects + 1)}
    \cup {Tab([i \in 1..n |-> [id |-> i] @@ Tile(VAdd(<<3, 3, 3>>, VScale(i - 1, d)))]) :
              n \in {2, 3, MaxObjects + 1}, d \in Strides}

Rays ==
    { NewRay(<<7, 7, 0>>, <<0, 0, 1>>),      \* primitives 1 and 2 at the same t
      NewRay(<<7, 5, 0>>, <<0, 0, 1>>),      \* 1 in front of 5 and 6
      NewRay(<<13, 3, 0>>, <<0, 0, 1>>),     \* 1 and 3 at the same t
      NewRay(<<5, 13, 0>>, <<0, 0, 1>>),     \* 4 alone
      NewRay(<<7, 5, 3>>, <<0, 0, 1>>),      \* from between the planes
      NewRay(<<5, 3, 0>>, <<1, 1, 1>>),
      NewRay(<<9, 11, 0>>, <<0, 1, 1>>),
      NewRay(<<1, 1, 0>>, <<0, 0, 1>>),      \* beside everything
      NewRay(<<7, 7, 0>>, <<0, 0, -1>>),     \* away from everything
      NewRay(<<7, 7, 6>>, <<0, 0, -1>>) }    \* onto the back sides

\* `NaN as i32`: 0 where the cast saturates, i32::MIN where it is left to the
\* hardware conversion
NanCasts == {0, -2147483647 - 1}

----------------------------------------------------------------------------
(* The worlds and rays the tracer is run on.  Lengths are in units of 1e-4. *)

\* an axis-parallel quad in the plane z, facing +z
QuadZUp(x0, x1, y0, y1, z) ==
    [type |-> "Quad", a |-> <<x0, y0, z>>, b |-> <<x1, y0, z>>,
     c |-> <<x1, y1, z>>, d |-> <<x0, y1, z>>]

\* Material::new
Material(material_type, texture_type) ==
    [material_type |-> material_type, texture_type |-> texture_type]

\* MaterialType
Reflective == [kind |-> "Reflective"]
NoMaterial == [kind |-> "None"]
Composition(materials) == [kind |-> "Composition", materials |-> materials]

NoTexture == [kind |-> "None"]
Flat(color) == [kind |-> "Flat", color |-> color]
Texture(buf) == [kind |-> "Texture", buf |-> buf]

\* an image buffer of no pixels, and one of two pixels side by side
EmptyImage == [width |-> 0, height |-> 0, texels |-> <<>>]
TwoTexels == [width |-> 2, height |-> 1, texels |-> << << <<255, 0, 0>>, <<0, 0, 255>> >> >>]

\* Light::new_point
new_point(position, color) == [light_type |-> "Point", position |-> position, color |-> color]

\* Light::new_ambient
new_ambient(color) == [light_type |-> "Ambient", color |-> color]

\* World::new, add_object and add_light: the objects take their places in the
\* list as identities
NewWorld(camera, background_color, objs, lights) ==
    [camera |-> camera,
     objects |-> Tab([i \in 1..Len(objs) |-> [id |-> i] @@ objs[i]]),
     lights |-> lights,
     background_color |-> background_color]

Camera(width, height) == [width |-> width, height |-> height]

Sky == rgb(<<1, 4>>, <<1, 2>>, <<1, 1>>)
White == rgb(<<1, 1>>, <<1, 1>>, <<1, 1>>)

\* a floor at z = 0 facing up and a ceiling at z = 8 facing down
Floor(material) == [material |-> material] @@ QuadZUp(0, 8, 0, 8, 0)
Ceiling(material) == [material |-> material] @@ QuadZ(0, 8, 0, 8, 8)

\* a shelf at z = 8 facing up
Shelf(material) == [material |-> material] @@ QuadZUp(0, 8, 0, 8, 8)

Mirror == Material(Reflective, NoTexture)
Plain == Material(NoMaterial, Flat(White))

\* a (MaterialType, f32) pair of a Composition, and a material made of pairs
Part(material, coefficient) == [material |-> material, coefficient |-> coefficient]
Mix(materials) == Material(Composition(materials), Flat(White))

TraceWorlds ==
    { \* two mirrors facing each other, and nothing else
      NewWorld(Camera(1, 1), Sky, <<Floor(Mirror), Ceiling(Mirror)>>, <<>>),
      \* the same under a light between them
      NewWorld(Camera(1, 1), Sky, <<Floor(Mirror), Ceiling(Mirror)>>,
               <<new_point(<<3, 3, 2>>, White)>>),
      \* a mirror under a plain ceiling, two lights
      NewWorld(Camera(1, 1), Sky,
               <<Floor(Mirror), Ceiling(Material(NoMaterial, Flat(White)))>>,
               <<new_point(<<3, 3, 2>>, White), new_point(<<3, 3, 12>>, White)>>),
      \* a textured ceiling
      NewWorld(Camera(1, 1), Sky,
               <<Floor(Mirror), Ceiling(Material(NoMaterial, Texture(TwoTexels)))>>, <<>>),
      \* a ceiling whose texture has no pixels
      NewWorld(Camera(1, 1), Sky,
               <<Floor(Mirror), Ceiling(Material(Reflective, Texture(EmptyImage)))>>, <<>>),
      \* nothing at all
      NewWorld(Camera(1, 1), Sky, <<>>, <<new_point(<<3, 3, 2>>, White)>>),
      \* a floor alone: a light under it, one in its plane, one over it, and an
      \* ambient light
      NewWorld(Camera(1, 1), Sky, <<Floor(Plain)>>,
               <<new_point(<<3, 3, -4>>, White), new_point(<<12, 3, 0>>, White),
                 new_point(<<3, 3, 6>>, White), new_ambient(White)>>),
      \* a floor under a shelf: a light over the shelf, one under it, and an
      \* ambient light
      NewWorld(Camera(1, 1), Sky, <<Floor(Plain), Shelf(Plain)>>,
               <<new_point(<<3, 3, 12>>, White), new_ambient(White),
                 new_point(<<5, 3, 4>>, White)>>),
      \* a floor that is half mirror under a plain ceiling, the coefficients
      \* summing to 1; a light under the floor and an ambient light
      NewWorld(Camera(1, 1), Sky,
               <<Floor(Mix(<<Part(Reflective, <<1, 2>>), Part(NoMaterial, <<1, 4>>),
                             Part(Reflective, <<1, 4>>)>>)),
                 Ceiling(Plain)>>,
               <<new_point(<<3, 3, -4>>, White), new_ambient(White)>>),
      \* a floor alone with the coefficients 2 and -1, over a light
      NewWorld(Camera(1, 1), Sky,
               <<Floor(Mix(<<Part(Reflective, <<2, 1>>), Part(NoMaterial, <<-1, 1>>)>>))>>,
               <<new_point(<<3, 3, -4>>, White)>>),
      \* a floor alone with the coefficients 1 and 1
      NewWorld(Camera(1, 1), Sky,
               <<Floor(Mix(<<Part(NoMaterial, <<1, 1>>), Part(Reflective, <<1, 1>>)>>))>>,
               <<>>) }

TraceRays ==
    { NewRay(<<3, 3, 4>>, <<0, 0, 1>>),     \* straight up: caught between the planes
      NewRay(<<3, 3, 4>>, <<0, 0, -1>>),    \* straight down
      NewRay(<<3, 1, 4>>, <<0, 3, 4>>),     \* meets the ceiling, then leaves
      NewRay(<<3, 1, 4>>, <<0, 1, 2>>),     \* ceiling, floor, then leaves
      NewRay(<<3, 3, 4>>, <<1, 0, 0>>),     \* along the planes
      NewRay(<<3, 3, 12>>, <<0, 0, 1>>) }   \* above the ceiling, away from it

----------------------------------------------------------------------------
(* The worlds render is run on: the camera at the origin looks along -z at
   quads in the plane z = -2, a wall stands behind it *)

\* the quad that pixel (0, 0) looks at: the samples in the left upper part
\* of the pixel meet it, the others pass to its right or below
Patch == [material |-> Material(NoMaterial, NoTexture)]
             @@ QuadZUp(-11000, -8000, 8000, 11000, -20000)

\* the quad that pixel (1, 0) looks at
Panel(material) == [material |-> material] @@ QuadZUp(-1000, 2000, 8000, 11000, -20000)

\* the mirror that pixel (1, 1) looks at, and the wall it shows
Glass == [material |-> Mirror] @@ QuadZUp(-1000, 2000, -2000, 1000, -20000)
Wall == [material |-> Material(NoMaterial, NoTexture)]
            @@ QuadZ(-6000, 6000, -6000, 6000, 10000)

RenderWorlds ==
    { NewWorld(Camera(2, 2), Sky,
               <<Patch, Panel(Material(NoMaterial, Texture(TwoTexels))), Glass, Wall>>, <<>>),
      \* the panel's texture has no pixels
      NewWorld(Camera(2, 2), Sky,
               <<Patch, Panel(Material(NoMaterial, Texture(EmptyImage))), Glass, Wall>>, <<>>),
      NewWorld(Camera(1, 2), Sky, <<Patch, Glass>>, <<>>) }

----------------------------------------------------------------------------
(* camera.rs, world.rs: World::render *)

\* 1.0 in units of 1e-4
Unit == 10000

\* let max_ray_bounces = 10
max_ray_bounces == 10

\* ThreadRng as a generator: the state after a draw, and rng.gen::<f32>(), a
\* value in [0, 1) that the state before the draw determines
RngNext(state) == (5 * state + 3) % 32
\* RngF32 gone wrong: a render after the first draws from a generator that was
\* seeded anew
RngF32Reseeded(state) ==
    Rat(((RngNext(state) \div 8) + (IF previous.some THEN 2 ELSE 0)) % 4, 4)

RngF32(state) == Rat(RngNext(state) \div 8, 4)

\* the point p / den in lowest terms
PointOf(p, den) ==
    LET g == Gcd(Gcd(Gcd(Abs(p[1]), Abs(p[2])), Abs(p[3])), den)
    IN  [position |-> [i \in Axes |-> p[i] \div g], den |-> den \div g]

\* Ray::new(position, direction) at a point, for a direction not zero
RayAt(point, direction) ==
    [position |-> point.position, den |-> point.den,
     direction |-> Primitive(direction), off |-> 0]

\* Camera::generate_ray from the screen coordinates x and y on, for a camera at
\* the origin that looks along -z with y up: position and direction are both
\* (x, y, -1)
RayThrough(x, y) ==
    RayAt(PointOf(<<x[1] * y[2] * Unit, y[1] * x[2] * Unit, -(x[2] * y[2] * Unit)>>,
                  x[2] * y[2]),
          <<x[1] * y[2], y[1] * x[2], -(x[2] * y[2])>>)

\* Camera::generate_ray: x = (pixel_x + dx) / width - 0.5 and
\* y = 0.5 - (pixel_y + dy) / height
generate_ray(camera, pixel_x, pixel_y, dx, dy) ==
    RayThrough(RAdd(Rat(pixel_x * dx[2] + dx[1], dx[2] * camera.width), <<-1, 2>>),
               RAdd(<<1, 2>>, Rat(-(pixel_y * dy[2] + dy[1]), dy[2] * camera.height)))

\* Jitter gone wrong: the generator is handed over whatever samples_per_pixel
JitterAlways(samples_per_pixel, state) ==
    [dx |-> Rat(RngF32(state)[1], 2 * RngF32(state)[2]),
     dy |-> Rat(RngF32(RngNext(state))[1], 2 * RngF32(RngNext(state))[2]),
     rng |-> RngNext(RngNext(state))]

\* the (dx, dy) of generate_ray and the generator afterwards: no jitter and no
\* draw without a generator, else two draws, each halved
Jitter(samples_per_pixel, state) ==
    IF samples_per_pixel = 1
    THEN [dx |-> <<0, 1>>, dy |-> <<0, 1>>, rng |-> state]
    ELSE [dx |-> Rat(RngF32(state)[1], 2 * RngF32(state)[2]),
          dy |-> Rat(RngF32(RngNext(state))[1], 2 * RngF32(RngNext(state))[2]),
          rng |-> RngNext(RngNext(state))]

\* InRange gone wrong: the range takes its end in
InRangeInclusive(i, n) == i <= n

\* i is in the range 0..n of a loop
InRange(i, n) == i < n

\* collect gone wrong: the items are kept in the order of their completion,
\* latest first
collectFront(items, item) == <<item>> \o items

\* Iterator::collect, one item on
collect(items, item) == Append(items, item)

\* ImageBuffer::from_fn(width, height, |x, y| pixels[x][y].get_rgb())
from_fn(width, height, grid) ==
    Tab([x \in 1..width |-> Tab([y \in 1..height |-> get_rgb(grid[x][y])])])

----------------------------------------------------------------------------
(* The acceleration structure as a state machine *)

Unbuilt == [kind |-> "Unbuilt"]
NotQueried == [queried |-> FALSE, res |-> None]
NoRay == NewRay(<<0, 0, 0>>, <<0, 0, 0>>)

Built(t) == t.kind \in {"Leaf", "Node"}

\* what is left of a construction: the tree, or the abort
Outcome(t) == IF IsPanic(t) THEN [kind |-> "Aborted", panic |-> t.panic] ELSE t

\* the parts of the state that a run leaves alone

NoWorld == NewWorld(Camera(0, 0), Sky, <<>>, <<>>)
\* no call of trace_ray is in progress
NoEvents == [calls |-> <<>>, work |-> Work(0, 0, 0)]

\* the panic that is unwinding the stack
Panicking(p) == [some |-> FALSE, panic |-> p]

Finished == ret # None
Top == stack[Len(stack)]
Pop(s) == SubSeq(s, 1, Len(s) - 1)

AddWork(a, b) ==
    [queries |-> a.queries + b.queries, shadow_tests |-> a.shadow_tests + b.shadow_tests,
     materials |-> a.materials + b.materials, lit |-> a.lit \o b.lit]

\* a call of trace_ray that has begun: the colors that the calls it made have
\* returned are kept with it
Frame(r, max_depth) == [ray |-> r, max_depth |-> max_depth, results |-> <<>>]

\* A call that goes on after a call it made has returned is run again from its
\* beginning with the colors returned so far, which takes it to where it
\* was; it does again none of the work.
GoesOn(frame, out) ==
    IF frame.results = <<>> THEN out ELSE [out EXCEPT !.work = Work(0, 0, 0)]

BvhIdle ==
    /\ objects = <<>>
    /\ tree = [st \in SplitTypes |-> Unbuilt]
    /\ ray = NoRay
    /\ hit = [st \in SplitTypes |-> NotQueried]

TraceIdle ==
    /\ world = NoWorld
    /\ stack = <<>>
    /\ ret = None
    /\ events = NoEvents

NoJob == [samples_per_pixel |-> 0, x |-> 0, y |-> 0, sample |-> 0,
          rgb_sum |-> <<<<0, 1>>, <<0, 1>>, <<0, 1>>, <<0, 1>>>>, samples |-> <<>>,
          column |-> <<>>, rng0 |-> 0]

\* a thread that runs no query
Idle == [status |-> "idle"]

UnitIdle ==
    /\ made = None
    /\ box = None
    /\ probe = None
    /\ threads = [th \in 1..NThreads |-> Idle]
    /\ split = None

RenderIdle ==
    /\ pc = "off"
    /\ job = NoJob
    /\ pixels = <<>>
    /\ rng = 0
    /\ image = None
    /\ log = <<>>
    /\ previous = None

Init ==
    /\ objects \in InputLists
    /\ tree = [st \in SplitTypes |-> Unbuilt]
    /\ ray = NoRay
    /\ hit = [st \in SplitTypes |-> NotQueried]
    /\ TraceIdle
    /\ RenderIdle
    /\ UnitIdle

\* Bvh::new(objects) under a split policy, before any query; a panic or a
\* stack overflow aborts
Build(st) ==
    /\ tree[st] = Unbuilt
    /\ ray = NoRay
    /\ \E nc \in NanCasts :
          tree' = [tree EXCEPT ![st] = Outcome(BvhNew(objects, st, nc))]
    /\ UNCHANGED <<objects, ray, hit, traceVars, renderVars, unitVars>>

\* Bvh::get_closest_intersection(r) is called on every tree that was built
Query(r) ==
    /\ ray = NoRay
    /\ \E st \in SplitTypes : Built(tree[st])
    /\ ray' = r
    /\ hit' = [st \in SplitTypes |->
                  IF Built(tree[st])
                  THEN [queried |-> TRUE, res |-> BvhClosest(tree[st], r)]
                  ELSE NotQueried]
    /\ UNCHANGED <<objects, tree, traceVars, renderVars, unitVars>>

\* the caller takes the result
Return ==
    /\ ray # NoRay
    /\ ray' = NoRay
    /\ hit' = [st \in SplitTypes |-> NotQueried]
    /\ UNCHANGED <<objects, tree, traceVars, renderVars, unitVars>>

Next ==
    \/ \E st \in SplitTypes : Build(st)
    \/ \E r \in Rays : Query(r)
    \/ Return

Spec == Init /\ [][Next]_vars

----------------------------------------------------------------------------
(* The tracer as a state machine: trace_ray calls are frames of a stack *)

\* a caller calls trace_ray(r, max_depth)
Call(r, max_depth) ==
    /\ stack' = <<Frame(r, max_depth)>>
    /\ ret' = None
    /\ events' = [calls |-> <<[ray |-> r, max_depth |-> max_depth]>>, work |-> Work(0, 0, 0)]

\* the innermost call runs: it returns, it panics, or it calls trace_ray
Step(out) ==
    /\ events' = [events EXCEPT
                     !.work = AddWork(@, out.work),
                     !.calls = IF out.kind = "call" THEN Append(@, out.frame) ELSE @]
    /\ stack' = IF out.kind = "call"
                THEN Append(stack, Frame(out.frame.ray, out.frame.max_depth))
                ELSE Pop(stack)
    /\ ret' = CASE out.kind = "call" -> None
                [] out.kind = "return" -> Some(out.color)
                [] out.kind = "panic" -> Panicking(out.panic)

TraceStep ==
    /\ stack # <<>>
    /\ ~Finished
    /\ Step(GoesOn(Top, trace_ray(world, Top)))
    /\ UNCHANGED <<world, renderVars, bvhVars, unitVars>>

\* trace_ray returns to a call that called it, which takes the color and goes
\* on; a panic unwinds that call too
TraceReturn ==
    /\ stack # <<>>
    /\ Finished
    /\ IF ret.some
       THEN /\ stack' = [stack EXCEPT ![Len(stack)].results = Append(@, ret.v)]
            /\ ret' = None
       ELSE /\ stack' = Pop(stack)
            /\ ret' = ret
    /\ UNCHANGED <<world, events, renderVars, bvhVars, unitVars>>

----------------------------------------------------------------------------
(* The tracer called from outside render *)

InitTrace ==
    /\ BvhIdle
    /\ world \in TraceWorlds
    /\ stack = <<>>
    /\ ret = None
    /\ events = NoEvents
    /\ RenderIdle
    /\ UnitIdle

TraceCall(r, max_depth) ==
    /\ pc = "off"
    /\ stack = <<>>
    /\ ~Finished
    /\ Call(r, max_depth)
    /\ UNCHANGED <<world, renderVars, bvhVars, unitVars>>

\* the caller takes the color
TraceTake ==
    /\ pc = "off"
    /\ stack = <<>>
    /\ Finished
    /\ ret' = None
    /\ events' = NoEvents
    /\ UNCHANGED <<world, stack, renderVars, bvhVars, unitVars>>

NextTrace ==
    \/ \E r \in TraceRays, max_depth \in 0..MaxBounces : TraceCall(r, max_depth)
    \/ TraceStep
    \/ TraceReturn
    \/ TraceTake

SpecTrace == InitTrace /\ [][NextTrace]_vars

----------------------------------------------------------------------------
(* World::render as a state machine *)

\* render(path, samples_per_pixel) is called: the assertion, then the loops
\* begin; a range that is empty is left at once
Render(samples_per_pixel) ==
    /\ pc = "new"
    /\ IF samples_per_pixel = 0
       THEN /\ pc' = "panic"
            /\ UNCHANGED <<job, pixels>>
       ELSE /\ job' = [NoJob EXCEPT !.samples_per_pixel = samples_per_pixel, !.rng0 = rng]
            /\ pixels' = IF InRange(0, world.camera.height)
                         THEN <<>>
                         ELSE Tab([x \in 1..world.camera.width |-> <<>>])
            /\ pc' = IF InRange(0, world.camera.width) /\ InRange(0, world.camera.height)
                     THEN "loop" ELSE "encode"
    /\ UNCHANGED <<rng, image, log, previous, traceVars, bvhVars, unitVars>>

\* one sample begins: the generator is drawn from, the ray is generated and
\* trace_ray is called on it
SampleWith(jitter) ==
    /\ rng' = jitter.rng
    /\ Call(generate_ray(world.camera, job.x, job.y, jitter.dx, jitter.dy), max_ray_bounces)

Sample ==
    /\ pc = "loop"
    /\ SampleWith(Jitter(job.samples_per_pixel, rng))
    /\ pc' = "trace"
    /\ UNCHANGED <<world, job, pixels, image, log, previous, bvhVars, unitVars>>

\* the column x is complete with the color of its last pixel
ColumnDone(column) ==
    /\ pixels' = collect(pixels, column)
    /\ job' = [job EXCEPT !.x = @ + 1, !.y = 0, !.sample = 0,
                          !.rgb_sum = NoJob.rgb_sum, !.samples = <<>>, !.column = <<>>]
    /\ pc' = IF InRange(job.x + 1, world.camera.width) THEN "loop" ELSE "encode"

\* the pixel (x, y) has its color, the mean of its samples
PixelDone(color, samples) ==
    /\ log' = Append(log, [x |-> job.x, y |-> job.y, color |-> color, samples |-> samples])
    /\ IF InRange(job.y + 1, world.camera.height)
       THEN /\ job' = [job EXCEPT !.y = @ + 1, !.sample = 0,
                                  !.rgb_sum = NoJob.rgb_sum, !.samples = <<>>,
                                  !.column = collect(@, color)]
            /\ pc' = "loop"
            /\ UNCHANGED pixels
       ELSE ColumnDone(collect(job.column, color))

\* the sample has its color, which is added to the sum; the samples of the
\* pixel are kept on record with the ray and the budget they were traced with
SampleDone(rgb_sum, samples) ==
    IF InRange(job.sample + 1, job.samples_per_pixel)
    THEN /\ job' = [job EXCEPT !.sample = @ + 1, !.rgb_sum = rgb_sum, !.samples = samples]
         /\ pc' = "loop"
         /\ UNCHANGED <<pixels, log>>
    ELSE PixelDone(rgba(V4Div(rgb_sum, job.samples_per_pixel)[1],
                        V4Div(rgb_sum, job.samples_per_pixel)[2],
                        V4Div(rgb_sum, job.samples_per_pixel)[3],
                        V4Div(rgb_sum, job.samples_per_pixel)[4]),
                   samples)

\* trace_ray has returned to render
Accumulate ==
    /\ pc = "trace"
    /\ stack = <<>>
    /\ ret.some
    /\ SampleDone(V4Add(job.rgb_sum, to_vec(ret.v)),
                  Append(job.samples, [ray |-> events.calls[1].ray,
                                       max_depth |-> events.calls[1].max_depth,
                                       color |-> ret.v]))
    /\ ret' = None
    /\ events' = NoEvents
    /\ UNCHANGED <<world, stack, rng, image, previous, bvhVars, unitVars>>

\* Unwind gone wrong: on its way out the panic saves the columns collected
UnwindSavesColumns ==
    /\ pc = "trace"
    /\ stack = <<>>
    /\ IsPanic(ret)
    /\ pc' = "panic"
    /\ image' = Some(from_fn(Len(pixels), world.camera.height, pixels))
    /\ pixels' = <<>>
    /\ log' = Append(log, [x |-> job.x, y |-> job.y, panic |-> ret.panic])
    /\ UNCHANGED <<job, rng, previous, traceVars, bvhVars, unitVars>>

\* the panic leaves render: its locals are dropped, nothing is saved
Unwind ==
    /\ pc = "trace"
    /\ stack = <<>>
    /\ IsPanic(ret)
    /\ pc' = "panic"
    /\ pixels' = <<>>
    /\ log' = Append(log, [x |-> job.x, y |-> job.y, panic |-> ret.panic])
    /\ UNCHANGED <<job, rng, image, previous, traceVars, bvhVars, unitVars>>

\* the image is made of the pixels and saved, which succeeds or fails
Save ==
    /\ pc = "encode"
    /\ \E saved \in BOOLEAN :
          IF saved
          THEN /\ image' = Some(from_fn(world.camera.width, world.camera.height, pixels))
               /\ pc' = "saved"
          ELSE /\ image' = image
               /\ pc' = "failed"
    /\ UNCHANGED <<job, pixels, rng, log, previous, traceVars, bvhVars, unitVars>>

\* the same scene is rendered once more, by the same World, whose generator
\* goes on from where it is, or by a World made anew, whose generator
\* thread_rng() seeds
Again(state) ==
    /\ pc \in {"saved", "failed"}
    /\ ~previous.some
    /\ previous' = Some([rng0 |-> job.rng0, samples_per_pixel |-> job.samples_per_pixel,
                         pixels |-> pixels])
    /\ rng' = state
    /\ pc' = "new"
    /\ job' = NoJob
    /\ pixels' = <<>>
    /\ image' = None
    /\ log' = <<>>
    /\ UNCHANGED <<traceVars, bvhVars, unitVars>>

----------------------------------------------------------------------------
(* Renders of a scene *)

InitRender ==
    /\ BvhIdle
    /\ world \in RenderWorlds
    /\ stack = <<>>
    /\ ret = None
    /\ events = NoEvents
    /\ pc = "new"
    /\ job = NoJob
    /\ pixels = <<>>
    /\ rng \in Seeds
    /\ image = None
    /\ log = <<>>
    /\ previous = None
    /\ UnitIdle

NextRender ==
    \/ \E samples_per_pixel \in 0..MaxSamples : Render(samples_per_pixel)
    \/ Sample
    \/ TraceStep
    \/ TraceReturn
    \/ Accumulate
    \/ Unwind
    \/ Save
    \/ \E state \in Seeds \cup {rng} : Again(state)

SpecRender == InitRender /\ [][NextRender]_vars

----------------------------------------------------------------------------
(* color.rs: Color values made by the constructors and the operators *)

\* the f32 values the channels and factors are drawn from
F32s == {<<-1, 1>>, <<0, 1>>, <<1, 2>>, <<2, 1>>, Inf, NegInf, NaN}

\* the colors that stand on the right of + and *
Palette ==
    {rgba(<<1, 2>>, <<1, 2>>, <<1, 2>>, <<1, 1>>), rgba(<<1, 1>>, <<0, 1>>, <<1, 2>>, <<1, 2>>),
     rgba(<<0, 1>>, <<0, 1>>, <<0, 1>>, <<0, 1>>)}

\* a Color that exists: v, made of the Color from by the n-th operation since
\* a constructor
Made(by, from, v, n) == [by |-> by, from |-> from, v |-> v, n |-> n]

IsColor(c) == c # None /\ ~IsPanic(c)

InitColor ==
    /\ BvhIdle
    /\ TraceIdle
    /\ RenderIdle
    /\ UnitIdle

\* Color::rgba(r, g, b, a), Color::from((r, g, b, a))
Rgba(r, g, b, a) ==
    /\ made = None
    /\ made' = Made("rgba", None, rgba(r, g, b, a), 0)
    /\ UNCHANGED <<box, probe, threads, split, bvhVars, traceVars, renderVars>>

\* Color::rgb(r, g, b), Color::from((r, g, b))
Rgb(r, g, b) ==
    /\ made = None
    /\ made' = Made("rgb", None, rgb(r, g, b), 0)
    /\ UNCHANGED <<box, probe, threads, split, bvhVars, traceVars, renderVars>>

\* self + rhs
Add(rhs) ==
    /\ IsColor(made)
    /\ made.n < MaxOps
    /\ made' = Made("add", made.v, ColorAdd(made.v, rhs), made.n + 1)
    /\ UNCHANGED <<box, probe, threads, split, bvhVars, traceVars, renderVars>>

\* self * rhs for a Color rhs
Mul(rhs) ==
    /\ IsColor(made)
    /\ made.n < MaxOps
    /\ made' = Made("mul", made.v, ColorMul(made.v, rhs), made.n + 1)
    /\ UNCHANGED <<box, probe, threads, split, bvhVars, traceVars, renderVars>>

\* self * rhs and rhs * self for an f32 rhs
MulF32(rhs) ==
    /\ IsColor(made)
    /\ made.n < MaxOps
    /\ made' = Made("mul_f32", made.v, F32MulColor(rhs, made.v), made.n + 1)
    /\ UNCHANGED <<box, probe, threads, split, bvhVars, traceVars, renderVars>>

\* self / rhs: debug_assert!(rhs != 0.) panics in a build with debug
\* assertions and is absent from a build without
DivF32(rhs, debug_assertions) ==
    /\ IsColor(made)
    /\ made.n < MaxOps
    /\ made' = IF debug_assertions /\ rhs = <<0, 1>>
                THEN [panic |-> "assertion failed: rhs != 0."]
                ELSE Made("div_f32", made.v, ColorDivF32(made.v, rhs), made.n + 1)
    /\ UNCHANGED <<box, probe, threads, split, bvhVars, traceVars, renderVars>>

NextColor ==
    \/ \E r, g, b, a \in F32s : Rgba(r, g, b, a)
    \/ \E r, g, b \in F32s : Rgb(r, g, b)
    \/ \E rhs \in Palette : Add(rhs)
    \/ \E rhs \in Palette : Mul(rhs)
    \/ \E rhs \in F32s : MulF32(rhs)
    \/ \E rhs \in F32s, debug_assertions \in BOOLEAN : DivF32(rhs, debug_assertions)

SpecColor == InitColor /\ [][NextColor]_vars

----------------------------------------------------------------------------
(* bvh.rs: AABB::new and AABB::intersect on their own *)

\* the corners handed to AABB::new
Corners == {<<x, y, z>> : x \in {0, 4}, y \in {0, 4}, z \in {0, 4}}

\* the rays handed to AABB::intersect; the box is the cube of (0, 0, 0) and
\* (4, 4, 4) or a face, an edge or a corner of it
BoxRays ==
    { NewRay(<<-2, 2, 2>>, <<1, 0, 0>>),     \* along x through the middle
      NewRay(<<-2, 6, 2>>, <<1, 0, 0>>),     \* along x, beside the box in y
      NewRay(<<-2, 4, 2>>, <<1, 0, 0>>),     \* along x in the plane y = 4
      NewRay(<<-2, 4, 4>>, <<1, 0, 0>>),     \* along the edge y = 4, z = 4
      NewRay(<<-2, 2, 2>>, <<1, 1, 0>>),     \* touches the edge x = 0, y = 4
      NewRay(<<-2, 2, 2>>, <<1, 1, 1>>),     \* touches the corner (0, 4, 4)
      NewRay(<<-2, 3, 2>>, <<1, 1, 0>>),     \* passes the edge x = 0, y = 4
      NewRay(<<2, 2, 2>>, <<1, 0, 0>>),      \* from the middle
      NewRay(<<2, 2, 2>>, <<-1, -2, 2>>),    \* from the middle, slanted
      NewRay(<<6, 2, 2>>, <<1, 0, 0>>),      \* away from the box behind it
      NewRay(<<6, 6, 6>>, <<1, 1, 2>>),      \* away from the box, slanted
      NewRay(<<2, 2, 6>>, <<0, 0, -1>>),     \* down onto the box
      NewRay(<<0, 0, 0>>, <<1, 2, 2>>),      \* from a corner inwards
      NewRay(<<4, 4, 4>>, <<1, 2, 2>>) }     \* from a corner outwards

InitAABB ==
    /\ BvhIdle
    /\ TraceIdle
    /\ RenderIdle
    /\ UnitIdle

\* AABB::new(min, max): the box, or the abort by an assertion; a box that is
\* dropped makes room for the next
NewAABB(min, max) ==
    /\ probe = None
    /\ box' = [min |-> min, max |-> max, out |-> AABBNew(min, max)]
    /\ UNCHANGED <<made, probe, threads, split, bvhVars, traceVars, renderVars>>

\* aabb.intersect(&r)
Intersect(r) ==
    /\ box # None
    /\ ~IsPanic(box.out)
    /\ probe = None
    /\ probe' = [ray |-> r, res |-> AABBIntersect(box.out, r)]
    /\ UNCHANGED <<made, box, threads, split, bvhVars, traceVars, renderVars>>

\* the caller takes the result
Taken ==
    /\ probe # None
    /\ probe' = None
    /\ UNCHANGED <<made, box, threads, split, bvhVars, traceVars, renderVars>>

NextAABB ==
    \/ \E min, max \in Corners : NewAABB(min, max)
    \/ \E r \in BoxRays : Intersect(r)
    \/ Taken

SpecAABB == InitAABB /\ [][NextAABB]_vars

----------------------------------------------------------------------------
(* bvh.rs: BvhTree::get_closest_intersection run by several threads on one
   tree, a visit of a node being a step *)

\* the primitives of the tree that is queried
QueryObjects == Tab([i \in 1..5 |-> [id |-> i] @@ Universe[i]])

QueryRays ==
    { NewRay(<<7, 5, 0>>, <<0, 0, 1>>),      \* 1 in front of 5
      NewRay(<<7, 5, 6>>, <<0, 0, -1>>),     \* onto the back sides
      NewRay(<<5, 13, 0>>, <<0, 0, 1>>),     \* 4 alone
      NewRay(<<1, 1, -2>>, <<0, 0, -1>>) }   \* away from the whole tree

\* the subtree at the end of a path of left and right from the root
RECURSIVE NodeAt(_, _)
NodeAt(t, path) == IF path = <<>> THEN t ELSE NodeAt(t[Head(path)], Tail(path))

\* a call of get_closest_intersection on the subtree at path that has begun
Enter(path) == [path |-> path, phase |-> "enter", l |-> None, v |-> None]

\* the call returns v to its caller
Returning(frame, v) == [frame EXCEPT !.phase = "ret", !.v = v]

\* Remember gone wrong: what the left subtree returned is forgotten
RememberNothing(frame, l) == [frame EXCEPT !.phase = "right", !.l = None]

\* the call at a Node keeps what its left subtree returned while the right
\* one is searched
Remember(frame, l) == [frame EXCEPT !.phase = "right", !.l = l]

\* min_by over what the two subtrees returned
MinOfBoth(l, r) ==
    MinBy((IF l.some THEN <<l.v>> ELSE <<>>) \o (IF r.some THEN <<r.v>> ELSE <<>>))

\* the call on top begins: a box that the ray misses returns None, a Leaf
\* returns the nearest of its objects, a Node calls its left subtree
Begun(t, r, frames) ==
    LET top == frames[Len(frames)]
        node == NodeAt(t, top.path)
    IN  IF ~AABBIntersect(node.aabb, r).some
        THEN [frames EXCEPT ![Len(frames)] = Returning(top, None)]
        ELSE IF node.kind = "Leaf"
        THEN [frames EXCEPT ![Len(frames)] = Returning(top, MinBy(HitPairs(node.objects, r)))]
        ELSE Append([frames EXCEPT ![Len(frames)].phase = "left"],
                    Enter(Append(top.path, "left")))

\* the call on top has returned to the call under it, which calls its right
\* subtree or returns the nearer of the two
Returned(frames) ==
    LET top == frames[Len(frames)]
        caller == frames[Len(frames) - 1]
        rest == Pop(frames)
    IN  IF caller.phase = "left"
        THEN Append([rest EXCEPT ![Len(rest)] = Remember(caller, top.v)],
                    Enter(Append(caller.path, "right")))
        ELSE [rest EXCEPT ![Len(rest)] = Returning(caller, MinOfBoth(caller.l, top.v))]

InitQueries ==
    /\ objects = QueryObjects
    /\ \E st \in SplitTypes :
          tree = [s \in SplitTypes |->
                     IF s = st THEN Outcome(BvhNew(QueryObjects, st, 0)) ELSE Unbuilt]
    /\ ray = NoRay
    /\ hit = [st \in SplitTypes |-> NotQueried]
    /\ TraceIdle
    /\ RenderIdle
    /\ UnitIdle

\* the tree that was built
TheTree == tree[CHOOSE st \in SplitTypes : Built(tree[st])]

\* a thread calls get_closest_intersection(r) on the root
StartQuery(th, r) ==
    /\ threads[th] = Idle
    /\ threads' = [threads EXCEPT ![th] =
                       [status |-> "running", ray |-> r, frames |-> <<Enter(<<>>)>>]]
    /\ UNCHANGED <<made, box, probe, split, bvhVars, traceVars, renderVars>>

\* a thread goes on by one visit; the call on the root returns to the thread
Visit(th) ==
    /\ threads[th].status = "running"
    /\ LET frames == threads[th].frames
           top == frames[Len(frames)]
       IN  threads' = [threads EXCEPT ![th] =
                          IF top.phase = "enter"
                          THEN [threads[th] EXCEPT
                                   !.frames = Begun(TheTree, threads[th].ray, frames)]
                          ELSE IF Len(frames) = 1
                          THEN [status |-> "done", ray |-> threads[th].ray, res |-> top.v]
                          ELSE [threads[th] EXCEPT !.frames = Returned(frames)]]
    /\ UNCHANGED <<made, box, probe, split, bvhVars, traceVars, renderVars>>

\* the thread takes the result
EndQuery(th) ==
    /\ threads[th].status = "done"
    /\ threads' = [threads EXCEPT ![th] = Idle]
    /\ UNCHANGED <<made, box, probe, split, bvhVars, traceVars, renderVars>>

NextQueries ==
    \/ \E th \in 1..NThreads, r \in QueryRays : StartQuery(th, r)
    \/ \E th \in 1..NThreads : Visit(th)
    \/ \E th \in 1..NThreads : EndQuery(th)

SpecQueries == InitQueries /\ [][NextQueries]_vars

----------------------------------------------------------------------------
(* bvh.rs: bvh_split on its own *)

InitSplit ==
    /\ objects \in SplitLists
    /\ tree = [st \in SplitTypes |-> Unbuilt]
    /\ ray = NoRay
    /\ hit = [st \in SplitTypes |-> NotQueried]
    /\ TraceIdle
    /\ RenderIdle
    /\ UnitIdle

\* bvh_split(objects, split_type): its locals, and the two halves or the abort
\* by an assertion
Split(split_type, nc) ==
    /\ split = None
    /\ split' = [split_type |-> split_type, nc |-> nc,
                 locals |-> SplitLocals(objects, split_type, nc),
                 out |-> bvh_split(objects, split_type, nc)]
    /\ UNCHANGED <<made, box, probe, threads, bvhVars, traceVars, renderVars>>

\* the caller takes the halves
SplitTaken ==
    /\ split # None
    /\ split' = None
    /\ UNCHANGED <<made, box, probe, threads, bvhVars, traceVars, renderVars>>

NextSplit ==
    \/ \E split_type \in SplitTypes, nc \in NanCasts : Split(split_type, nc)
    \/ SplitTaken

SpecSplit == InitSplit /\ [][NextSplit]_vars

----------------------------------------------------------------------------
(* bvh.rs: the node over any two halves, and the count of Bvh::new *)

\* the lists of two primitives or more that are split once
CountLists == {q \in InputLists : Len(q) >= 2 /\ Len(q) <= MaxObjects - 2}

\* the halves a split of objs may hand back, right or wrong: any two
\* non-empty lists of members of objs in their order
Halves(objs) ==
    {[left |-> l, right |-> r] : l \in SubSeqs(objs) \ {<<>>}, r \in SubSeqs(objs) \ {<<>>}}

InitCount ==
    /\ objects \in CountLists
    /\ tree = [st \in SplitTypes |-> Unbuilt]
    /\ ray = NoRay
    /\ hit = [st \in SplitTypes |-> NotQueried]
    /\ TraceIdle
    /\ RenderIdle
    /\ UnitIdle

\* BvhTree::new from the halves s on (bvh.rs 346-351), then the count of
\* Bvh::new (bvh.rs 17)
NodeOfHalves(st, s) ==
    /\ \A other \in SplitTypes : tree[other] = Unbuilt
    /\ \E nc \in NanCasts :
          tree' = [tree EXCEPT ![st] =
                      Outcome(AssertNumObjects(BvhTreeNode(objects, s, st, nc), Len(objects)))]
    /\ UNCHANGED <<objects, ray, hit, traceVars, renderVars, unitVars>>

\* the tree is dropped
DropTree(st) ==
    /\ tree[st] # Unbuilt
    /\ tree' = [tree EXCEPT ![st] = Unbuilt]
    /\ UNCHANGED <<objects, ray, hit, traceVars, renderVars, unitVars>>

NextCount ==
    \/ \E st \in SplitTypes, s \in Halves(objects) : NodeOfHalves(st, s)
    \/ \E st \in SplitTypes : DropTree(st)

SpecCount == InitCount /\ [][NextCount]_vars

----------------------------------------------------------------------------
(* Properties of the bounding boxes *)

\* min > max on some axis
Inverted(min, max) == \E i \in Axes : min[i] > max[i]

\* C14: AABB::new aborts exactly when min > max on some axis, and a box that
\* exists has min <= max on the x, the y and the z axis.
C14_NewAbortsIffInverted ==
    box # None =>
        /\ IsPanic(box.out) <=> Inverted(box.min, box.max)
        /\ ~IsPanic(box.out) =>
                /\ box.out.min = box.min
                /\ box.out.max = box.max
                /\ \A i \in Axes : box.out.min[i] <= box.out.max[i]

\* AABB::new has aborted on corners that are in order on the x axis and
\* inverted on another one
C14_Case ==
    /\ box # None
    /\ IsPanic(box.out)
    /\ box.min[1] <= box.max[1]

\* the parameters at which the line of r crosses the plane of a face of aabb
FaceParameters(aabb, r) ==
    {Rat(c * r.den - r.position[i], r.den * r.direction[i]) :
        <<i, c>> \in {<<j, e>> \in Axes \X (Range(aabb.min) \cup Range(aabb.max)) :
                        /\ r.direction[j] # 0
                        /\ e \in {aabb.min[j], aabb.max[j]}}}

\* the point of r at parameter t is within [min, max] of aabb on axis i
WithinOn(aabb, r, t, i) ==
    /\ aabb.min[i] * r.den * t[2] <= r.position[i] * t[2] + t[1] * r.direction[i] * r.den
    /\ r.position[i] * t[2] + t[1] * r.direction[i] * r.den <= aabb.max[i] * r.den * t[2]

\* the parameters at which r is in the closed box: if there are any, the least
\* and the greatest of them are parameters of faces
Touches(aabb, r) == {t \in FaceParameters(aabb, r) : \A i \in Axes : WithinOn(aabb, r, t, i)}

\* r runs along a plane of coordinates and starts outside the range of the
\* box on the axis across it
ParallelOutside(aabb, r) ==
    \E i \in Axes :
        /\ r.direction[i] = 0
        /\ r.position[i] < aabb.min[i] * r.den \/ r.position[i] > aabb.max[i] * r.den

\* C15: AABB::intersect reports a hit exactly when some parameter is in the
\* closed interval of all three axes, that is when the line of the ray has a
\* point in the closed box; an axis along which the ray does not move counts
\* for every parameter when the origin is within the range of the box and for
\* none otherwise.  So a ray that touches an edge or a corner only hits, and a
\* ray parallel to an axis plane that starts outside the range misses.
C15_HitIffIntervalsMeet ==
    probe # None =>
        /\ probe.res.some <=> Touches(box.out, probe.ray) # {}
        /\ ParallelOutside(box.out, probe.ray) => ~probe.res.some

\* a hit by a ray that is in the box at one parameter only
C15_TouchCase ==
    /\ probe # None
    /\ probe.res.some
    /\ Cardinality(Touches(box.out, probe.ray)) = 1
    /\ \A i \in Axes : box.out.min[i] < box.out.max[i]

\* a miss by a ray that moves along x only and starts beside the box
C15_ParallelCase ==
    /\ probe # None
    /\ ~probe.res.some
    /\ ParallelOutside(box.out, probe.ray)

\* the bounds of the parameters at which r is in the box
EntryBound(aabb, r) == CHOOSE t \in Touches(aabb, r) : \A u \in Touches(aabb, r) : RLe(t, u)
ExitBound(aabb, r) == CHOOSE t \in Touches(aabb, r) : \A u \in Touches(aabb, r) : RLe(u, t)

\* C16: the parameter that AABB::intersect returns with a hit is the smallest
\* bound of the interval that is not negative: the entry bound when that is not
\* negative, the exit bound otherwise, and never a negative number.
C16_ReturnsLeastNonNegativeBound ==
    probe # None /\ probe.res.some =>
        /\ probe.res.v[1] >= 0
        /\ probe.res.v = IF EntryBound(box.out, probe.ray)[1] >= 0
                         THEN EntryBound(box.out, probe.ray)
                         ELSE ExitBound(box.out, probe.ray)

\* what holds instead: the entry bound when it is not negative and the exit
\* bound otherwise, which is negative when the whole box is behind the origin
C16_ReturnsEntryOrExitBound ==
    probe # None /\ probe.res.some =>
        /\ probe.res.v = IF EntryBound(box.out, probe.ray)[1] >= 0
                         THEN EntryBound(box.out, probe.ray)
                         ELSE ExitBound(box.out, probe.ray)
        /\ probe.res.v[1] < 0 <=> ExitBound(box.out, probe.ray)[1] < 0

\* a hit reported for a box with volume that is wholly behind the origin
C16_BehindCase ==
    /\ probe # None
    /\ probe.res.some
    /\ ExitBound(box.out, probe.ray)[1] < 0
    /\ \A i \in Axes : box.out.min[i] < box.out.max[i]

----------------------------------------------------------------------------
(* Properties of the acceleration structure *)

\* the primitives held in the leaves of a tree, left to right
RECURSIVE LeafObjects(_)
LeafObjects(t) ==
    IF t.kind = "Leaf" THEN t.objects ELSE LeafObjects(t.left) \o LeafObjects(t.right)

\* the number of places at which x occurs in the sequence s
Occurrences(s, x) == Cardinality({k \in DOMAIN s : s[k] = x})

\* C1: every tree that Bvh::new builds holds in its leaves as many primitives as
\* the input list has, and every input primitive occurs in exactly one leaf, once
C1_LeavesHoldEachInputOnce ==
    \A st \in SplitTypes :
        Built(tree[st]) =>
            /\ Len(LeafObjects(tree[st])) = Len(objects)
            /\ \A i \in DOMAIN objects : Occurrences(LeafObjects(tree[st]), objects[i]) = 1

\* C1, its case: five primitives went through a SAH split and two levels of
\* splits, and the tree was built
C1_Witness ==
    /\ Len(objects) = 5
    /\ Built(tree["SAH"])
    /\ tree["SAH"].kind = "Node"
    /\ \E side \in {"left", "right"} : tree["SAH"][side].kind = "Node"

\* the parameters at which the ray of the query meets the input primitives
HitTs == {get_intersection(objects[i], ray).v :
              i \in {j \in DOMAIN objects : get_intersection(objects[j], ray).some}}

\* C2: a query on a built tree returns None exactly when the ray meets no input
\* primitive; otherwise it returns a primitive the ray meets, at the least
\* parameter over all input primitives, which is the t of the scan of the list
C2_ClosestIsScanMinimum ==
    \A st \in SplitTypes :
        hit[st].queried =>
            /\ hit[st].res.some <=> HitTs # {}
            /\ hit[st].res.some <=> get_closest_intersection(objects, ray).some
            /\ hit[st].res.some =>
                  /\ hit[st].res.v.t \in HitTs
                  /\ \A t \in HitTs : RLe(hit[st].res.v.t, t)
                  /\ hit[st].res.v.t = get_closest_intersection(objects, ray).v.t
                  /\ get_intersection(objects[hit[st].res.v.object], ray)
                        = Some(hit[st].res.v.t)

\* C2, its case: a query on a tree of four primitives or more, the ray meeting
\* primitives at two different parameters and missing others
C2_Witness ==
    \E st \in SplitTypes :
        /\ hit[st].queried
        /\ Len(objects) >= 4
        /\ tree[st].kind = "Node"
        /\ hit[st].res.some
        /\ Cardinality(HitTs) >= 2
        /\ \E i \in DOMAIN objects : ~get_intersection(objects[i], ray).some

BothQueried == hit["Basic"].queried /\ hit["SAH"].queried

----------------------------------------------------------------------------
(* Properties of queries that run at the same time *)

\* C20: a nearest-hit query changes neither the tree nor the primitives: every
\* step of a query leaves them as they are, whatever the number of queries
\* before it; and however the visits of the queries of several threads on the
\* same tree are interleaved, every query returns what the query returns that
\* is run alone from its beginning to its end.
C20_QueriesLeaveTreeAlone ==
    /\ [][threads' # threads => (tree' = tree /\ objects' = objects)]_vars
    /\ [](\A th \in 1..NThreads :
            threads[th].status = "done" =>
                threads[th].res = BvhClosest(TheTree, threads[th].ray))

\* C20, its case: a query has returned a hit while the query of another
\* thread, of another ray, was two levels deep in the same tree with what its
\* left subtree returned in hand
C20_Case ==
    \E th, other \in 1..NThreads :
        /\ threads[th].status = "done"
        /\ threads[th].res.some
        /\ threads[other].status = "running"
        /\ threads[other].ray # threads[th].ray
        /\ Len(threads[other].frames) >= 2
        /\ threads[other].frames[1].phase = "right"
        /\ threads[other].frames[1].l.some

----------------------------------------------------------------------------
(* Properties of Color *)

\* the channel is a number of [0, 1]
InUnitRange(x) == x[2] > 0 /\ RLe(<<0, 1>>, x) /\ RLe(x, <<1, 1>>)

\* C13 as stated: every Color that is constructed, by a constructor or by an
\* operator, has its four channels within [0, 1]
C13_ChannelsInUnitRange ==
    IsColor(made) => \A i \in 1..4 : InUnitRange(made.v[i])

\* C13, what the constructors do: every channel is within [0, 1] or is NaN,
\* and it is NaN only if an argument of rgba was
C13_ChannelsInUnitRangeOrNaN ==
    IsColor(made) => \A i \in 1..4 : InUnitRange(made.v[i]) \/ made.v[i] = NaN

\* C13, its case: a Color whose channels are numbers of [0, 1] was divided by
\* 0.0 in a build without debug assertions, and the Color that came of it has
\* a channel that is NaN
C13_Case ==
    /\ IsColor(made)
    /\ made.by = "div_f32"
    /\ \A i \in 1..4 : InUnitRange(made.from[i])
    /\ made.v[1] = NaN
    /\ InUnitRange(made.v[4])

----------------------------------------------------------------------------
(* Properties of the tracer *)

\* the innermost call is about to run
Running == stack # <<>> /\ ~Finished

\* the outermost call has returned or panicked, the caller has not yet taken
\* the result
Completed == stack = <<>> /\ Finished

\* C8: a call of trace_ray with budget 0, whatever the ray and the scene, returns
\* the background color, and does so without a nearest-hit query, a shadow test,
\* a material evaluation or a call of trace_ray
C8_ZeroBudgetIsBackground ==
    [][(Running /\ Top.max_depth = 0) =>
          /\ ret' = Some(world.background_color)
          /\ stack' = Pop(stack)
          /\ events' = events]_vars

\* C8, its case: a call with budget 0 has returned in a scene with lights, for a
\* ray that meets a primitive
C8_Witness ==
    /\ Completed
    /\ pc = "off"
    /\ events.calls[1].max_depth = 0
    /\ ret = Some(world.background_color)
    /\ world.lights # <<>>
    /\ get_closest_intersection(world.objects, events.calls[1].ray).some

\* the scene is two purely reflective quads that face each other (their
\* material is Reflective, no image is their texture), and no other primitive
TwoMirrors ==
    /\ Len(world.objects) = 2
    /\ \A i \in 1..2 :
          /\ world.objects[i].material.material_type = Reflective
          /\ world.objects[i].material.texture_type.kind # "Texture"
    /\ NormalOf(world.objects[1]) = VScale(-1, NormalOf(world.objects[2]))
    /\ Dot(VSub(world.objects[2].a, world.objects[1].a), NormalOf(world.objects[1])) > 0

\* the calls of trace_ray made by trace_ray
RecursiveCalls == Len(events.calls) - 1

\* every call made by trace_ray carries a budget one less than its caller's
BudgetsDescend ==
    \A i \in 1..RecursiveCalls :
        events.calls[i + 1].max_depth = events.calls[i].max_depth - 1

\* the ray of the last call meets a primitive
LastRayMeets ==
    get_closest_intersection(world.objects, events.calls[Len(events.calls)].ray).some

\* the ray of every call that has budget left meets a primitive
AllRaysMeet ==
    \A i \in DOMAIN events.calls :
        events.calls[i].max_depth > 0 =>
            get_closest_intersection(world.objects, events.calls[i].ray).some

\* what is left to do of the calls in progress, at most: every step of a call
\* that takes from it brings the end nearer, and at 0 nothing is in progress
StepsLeft ==
    IF stack = <<>> THEN 0
    ELSE IF Finished THEN 2 * Len(stack)
    ELSE IF Top.results # <<>> THEN 2 * Len(stack) - 1
    ELSE 3 * Top.max_depth + 2 * Len(stack) - 1

Evaluations == events.work.lit

\* the point lights of the world
PointLights == {l \in Range(world.lights) : l.light_type = "Point"}

\* the light ray from the light to the point meets the primitive o nearer to
\* the light than the point is by more than 1e-4
Obstructs(o, light, point) ==
    LET v == VSub(point.position, VScale(point.den, light.position))
    IN  /\ v # <<0, 0, 0>>
        /\ get_intersection(o, NewRay(light.position, Primitive(v))).some
        /\ is_in_shadow(get_intersection(o, NewRay(light.position, Primitive(v))).v,
                        Rat(Gcd(Gcd(Abs(v[1]), Abs(v[2])), Abs(v[3])), point.den),
                        Primitive(v))

Obstructed(light, point) == \E o \in Range(world.objects) : Obstructs(o, light, point)

\* the light ray from the light to the point meets no primitive at all
MeetsNothing(light, point) ==
    LET v == VSub(point.position, VScale(point.den, light.position))
    IN  \/ v = <<0, 0, 0>>
        \/ \A o \in Range(world.objects) :
              ~get_intersection(o, NewRay(light.position, Primitive(v))).some

\* C11 as stated: a point light is left out of the lights that a material is
\* evaluated with if and only if a primitive obstructs the way from the light
\* to the hit point, nearer to the light than the point by more than 1e-4
C11_ExcludedIffObstructed ==
    \A k \in DOMAIN Evaluations : \A light \in PointLights :
        (light \notin Range(Evaluations[k].lights)) <=> Obstructed(light, Evaluations[k].point)

\* C11, what the filter does: a point light is left out if and only if a
\* primitive obstructs it or its light ray meets no primitive at all
C11_ExcludedIffObstructedOrUnmet ==
    \A k \in DOMAIN Evaluations : \A light \in PointLights :
        (light \notin Range(Evaluations[k].lights))
            <=> (Obstructed(light, Evaluations[k].point)
                    \/ MeetsNothing(light, Evaluations[k].point))

\* C11, its cases: a light was left out for a shelf between it and the hit
\* point while another was let through; a light was left out that nothing
\* obstructs
C11_ObstructedCase ==
    \E k \in DOMAIN Evaluations : \E light, other \in PointLights :
        /\ Obstructed(light, Evaluations[k].point)
        /\ light \notin Range(Evaluations[k].lights)
        /\ other \in Range(Evaluations[k].lights)

C11_UnmetCase ==
    \E k \in DOMAIN Evaluations : \E light \in PointLights :
        /\ ~Obstructed(light, Evaluations[k].point)
        /\ light \notin Range(Evaluations[k].lights)

\* C12 as stated: a point light that no primitive obstructs, and every ambient
\* light, is among the lights that the material is evaluated with
C12_UnobstructedIncluded ==
    \A k \in DOMAIN Evaluations : \A light \in Range(world.lights) :
        (light.light_type = "Ambient" \/ ~Obstructed(light, Evaluations[k].point))
            => light \in Range(Evaluations[k].lights)

\* C12, what the filter does: every ambient light, and every point light that
\* no primitive obstructs and whose light ray meets a primitive, is among the
\* lights that the material is evaluated with
C12_UnobstructedAndMetIncluded ==
    \A k \in DOMAIN Evaluations : \A light \in Range(world.lights) :
        (\/ light.light_type = "Ambient"
         \/ /\ ~Obstructed(light, Evaluations[k].point)
            /\ ~MeetsNothing(light, Evaluations[k].point))
            => light \in Range(Evaluations[k].lights)

\* C12, its case: at a hit point of the floor the light over it and the ambient
\* light were let through, the light under it was not
C12_Case ==
    \E k \in DOMAIN Evaluations :
        /\ \E light \in Range(Evaluations[k].lights) : light.light_type = "Ambient"
        /\ \E light \in PointLights : light \in Range(Evaluations[k].lights)
        /\ \E light \in PointLights :
              /\ MeetsNothing(light, Evaluations[k].point)
              /\ light \notin Range(Evaluations[k].lights)

\* the calls of trace_ray that have begun to run: all but one that was just made
Ran ==
    IF stack # <<>> /\ ~Finished /\ Top.results = <<>>
    THEN Len(events.calls) - 1
    ELSE Len(events.calls)

\* what the nearest-hit query of call k finds
Closest(k) == get_closest_intersection(world.objects, events.calls[k].ray)

\* the calls that have run with a budget that is not 0 and with a hit, in order
Hitting == SelectSeq([k \in 1..Ran |-> k], LAMBDA k : events.calls[k].max_depth > 0 /\ Closest(k).some)

\* what Material::get_color is to be called with by call k
Due(k) ==
    LET point == get_point_on_ray(events.calls[k].ray, Closest(k).v.t)
    IN  [ray |-> events.calls[k].ray,
         object |-> world.objects[Closest(k).v.object].id,
         point |-> point,
         lights |-> SelectSeq(world.lights, LAMBDA light : reaches_point(world, light, point)),
         max_depth |-> events.calls[k].max_depth - 1]

\* C17: the material evaluations are those of the calls of trace_ray that had
\* a budget other than 0 and found a hit, one for each such call and in their
\* order, each of the material of the primitive hit first and with the lights
\* that the filter has kept; a call with budget 0 or without a hit evaluates
\* no material.
C17_OneEvaluationPerHit ==
    /\ Evaluations = [j \in 1..Len(Hitting) |-> Due(Hitting[j])]
    /\ events.work.materials = Len(Hitting)

\* two calls have run: the first hit a primitive and the second, made by its
\* material, met nothing, and the filter has dropped a light for the evaluation
C17_Case ==
    /\ Ran >= 2
    /\ Len(Hitting) = 1
    /\ Closest(1).some
    /\ ~Closest(2).some
    /\ \E j \in 1..Len(Evaluations) : Len(Evaluations[j].lights) < Len(world.lights)

\* the innermost call is about to run on a primitive whose material is a
\* Composition of parts that are not Compositions themselves
Composed ==
    /\ Running
    /\ Top.max_depth > 0
    /\ get_closest_intersection(world.objects, Top.ray).some
    /\ world.objects[get_closest_intersection(world.objects, Top.ray).v.object]
            .material.material_type.kind = "Composition"

ComposedObject == world.objects[get_closest_intersection(world.objects, Top.ray).v.object]
Parts == ComposedObject.material.material_type.materials

\* what the i-th part evaluates to: a mirror part to what trace_ray has
\* returned for its reflected ray, MaterialType::None to grey
PartColor(i) ==
    IF Parts[i].material.kind = "Reflective"
    THEN Top.results[Cardinality({j \in 1..i : Parts[j].material.kind = "Reflective"})]
    ELSE <<<<1, 2>>, <<1, 2>>, <<1, 2>>, <<1, 1>>>>

Times(p, q) == Rat(p[1] * q[1], p[2] * q[2])
Saturated(x) == IF x[1] < 0 THEN <<0, 1>> ELSE IF x[1] > x[2] THEN <<1, 1>> ELSE x

\* the sum over the first n parts of coefficient times channel c
RECURSIVE WeightedSum(_, _)
WeightedSum(n, c) ==
    IF n = 0 THEN <<0, 1>>
    ELSE RAdd(WeightedSum(n - 1, c), Times(Parts[n].coefficient, PartColor(n)[c]))

\* the same with every product and every sum brought into [0, 1]
RECURSIVE SaturatingSum(_, _)
SaturatingSum(n, c) ==
    IF n = 0 THEN <<0, 1>>
    ELSE Saturated(RAdd(SaturatingSum(n - 1, c),
                        Saturated(Times(Parts[n].coefficient, PartColor(n)[c]))))

\* the ray that a mirror part has traced: from the hit point along the
\* reflection of the ray of the call
Reflected ==
    LET point == get_point_on_ray(Top.ray, get_closest_intersection(world.objects, Top.ray).v.t)
    IN  [ray |-> [position |-> point.position, den |-> point.den,
                  direction |-> reflect(Top.ray.direction, NormalOf(ComposedObject)),
                  off |-> 1],
         max_depth |-> Top.max_depth - 1]

\* every call that the parts make is of the same ray and budget
SamePartCalls ==
    /\ Len(stack') > Len(stack) =>
          /\ events'.calls = Append(events.calls, Reflected)
          /\ Len(Top.results) < Cardinality({j \in DOMAIN Parts : Parts[j].material.kind = "Reflective"})
    /\ ret'.some =>
          Len(Top.results) = Cardinality({j \in DOMAIN Parts : Parts[j].material.kind = "Reflective"})

\* C18 as stated: the color that a Composition returns is the sum over its
\* parts of coefficient times the color of the part, as far as a Color can
\* hold it (brought into [0, 1] at the end), whatever the coefficients
C18_WeightedSum ==
    [][Composed =>
          /\ SamePartCalls
          /\ ret'.some =>
                ret'.v = [c \in 1..4 |-> Saturated(WeightedSum(Len(Parts), c))]]_vars

\* C18: the parts are evaluated with the same ray, hit, lights and budget, and
\* the color returned is the sum from (0, 0, 0, 0) on of coefficient times the
\* color of the part in the arithmetic of Color, where every product and every
\* sum is brought into [0, 1], alpha as well; for coefficients that are not
\* negative that is the weighted sum brought into [0, 1]
C18_SaturatingWeightedSum ==
    [][Composed =>
          /\ SamePartCalls
          /\ ret'.some =>
                /\ ret'.v = [c \in 1..4 |-> SaturatingSum(Len(Parts), c)]
                /\ (\A j \in DOMAIN Parts : Parts[j].coefficient[1] >= 0) =>
                      ret'.v = [c \in 1..4 |-> Saturated(WeightedSum(Len(Parts), c))]]_vars

\* C18, its case: a Composition with the coefficients 2 and -1, which do not
\* sum to 1, has returned a color after its mirror part has traced a ray
C18_Case ==
    /\ Completed
    /\ ret.some
    /\ Len(events.calls) = 2
    /\ Closest(1).some
    /\ world.objects[Closest(1).v.object].material.material_type.kind = "Composition"
    /\ \E part \in Range(world.objects[Closest(1).v.object].material.material_type.materials) :
          part.coefficient[1] < 0

\* C10: when the nearest-hit query of a call of trace_ray finds no primitive, the
\* call returns the background color: it does not panic and calls nothing
C10_MissIsBackground ==
    [][(Running /\ Top.max_depth > 0
            /\ ~get_closest_intersection(world.objects, Top.ray).some) =>
          /\ ret' = Some(world.background_color)
          /\ stack' = Pop(stack)
          /\ events'.calls = events.calls
          /\ events'.work = AddWork(events.work, Work(1, 0, 0))]_vars

\* C10, its case: in a scene with primitives and lights a reflected ray met
\* nothing, and the background color came back through the calls
C10_Witness ==
    /\ Completed
    /\ pc = "off"
    /\ world.objects # <<>>
    /\ RecursiveCalls >= 1
    /\ events.calls[Len(events.calls)].max_depth > 0
    /\ ~LastRayMeets
    /\ ret = Some(world.background_color)

----------------------------------------------------------------------------
(* Properties of render *)

\* the loops of render are over: the image is being made, or render has
\* returned
Collected == pc \in {"encode", "saved", "failed"}

\* the places in the log at which pixel (x, y) was computed
Computations(x, y) == {k \in DOMAIN log : log[k].x = x /\ log[k].y = y}

Columns == 0..(world.camera.width - 1)
Rows == 0..(world.camera.height - 1)

C5_EveryPixelOnce ==
    /\ Collected =>
          /\ Len(pixels) = world.camera.width
          /\ \A x \in DOMAIN pixels : Len(pixels[x]) = world.camera.height
          /\ Len(log) = world.camera.width * world.camera.height
          /\ \A x \in Columns : \A y \in Rows : Cardinality(Computations(x, y)) = 1
    /\ image.some =>
          /\ Collected
          /\ Len(image.v) = world.camera.width
          /\ \A x \in DOMAIN image.v : Len(image.v[x]) = world.camera.height
    /\ pc \in {"loop", "trace"} =>
          /\ Len(pixels) < world.camera.width
          /\ \A x \in Columns : \A y \in Rows : Cardinality(Computations(x, y)) <= 1

\* C5, its case: an image of one column and two rows, two samples a pixel, was
\* saved
C5_Witness ==
    /\ pc = "saved"
    /\ world.camera.width = 1
    /\ world.camera.height = 2
    /\ job.samples_per_pixel = 2
    /\ image.some

\* a pixel's computation panicked in this call of render
PixelPanicked == \E k \in DOMAIN log : IsPanic(log[k])

\* C6: when the computation of a pixel panics, render is aborted by the panic: it
\* does not return and no image is saved, neither without the column of that
\* pixel nor with a part of it; an image that is saved has all its columns
C6_PanicSavesNothing ==
    /\ (PixelPanicked \/ pc = "panic") => (pc = "panic" /\ ~image.some)
    /\ image.some =>
          /\ Len(pixels) = world.camera.width
          /\ \A x \in DOMAIN pixels : Len(pixels[x]) = world.camera.height
          /\ \A k \in DOMAIN log : ~IsPanic(log[k])

\* C6, its case: the second column's first pixel panicked after the first
\* column was collected
C6_Witness ==
    /\ pc = "panic"
    /\ PixelPanicked
    /\ Len(log) = world.camera.height + 1
    /\ IsPanic(log[Len(log)])
    /\ log[Len(log)].x = 1
    /\ ~image.some

\* the sum of channel c over the first n samples
RECURSIVE ChannelSum(_, _, _)
ChannelSum(samples, c, n) ==
    IF n = 0 THEN <<0, 1>> ELSE RAdd(ChannelSum(samples, c, n - 1), samples[n].color[c])

\* the mean of the colors of the samples, channel by channel
MeanColor(samples) ==
    [c \in 1..4 |-> Rat(ChannelSum(samples, c, Len(samples))[1],
                        ChannelSum(samples, c, Len(samples))[2] * Len(samples))]

\* a sample begins
Sampling == pc = "loop" /\ pc' = "trace"

\* C19: the color of every pixel is the mean, channel by channel, of the
\* colors that trace_ray returned for exactly samples_per_pixel samples of
\* that pixel, each traced with the budget max_ray_bounces; with
\* samples_per_pixel = 1 the ray of the sample is generated without the
\* generator, which is left as it is, and goes through the corner of the pixel;
\* otherwise the ray of every sample is generated with two draws
C19_PixelIsMeanOfSamples ==
    /\ [](\A k \in DOMAIN log :
            ~IsPanic(log[k]) =>
                /\ Len(log[k].samples) = job.samples_per_pixel
                /\ log[k].color = MeanColor(log[k].samples)
                /\ \A j \in DOMAIN log[k].samples :
                      log[k].samples[j].max_depth = max_ray_bounces)
    /\ [][Sampling =>
            /\ events'.calls = <<[ray |-> stack'[1].ray, max_depth |-> max_ray_bounces]>>
            /\ job.samples_per_pixel = 1 =>
                  /\ rng' = rng
                  /\ stack'[1].ray = generate_ray(world.camera, job.x, job.y, <<0, 1>>, <<0, 1>>)
            /\ job.samples_per_pixel # 1 =>
                  /\ rng' = RngNext(RngNext(rng))
                  /\ stack'[1].ray = generate_ray(world.camera, job.x, job.y,
                                                  Times(RngF32(rng), <<1, 2>>),
                                                  Times(RngF32(RngNext(rng)), <<1, 2>>))]_vars

\* C19, its case: a pixel of two samples whose colors differ has its color,
\* and the image was saved
C19_Case ==
    /\ pc = "saved"
    /\ job.samples_per_pixel = 2
    /\ \E k \in DOMAIN log :
          /\ log[k].samples[1].color # log[k].samples[2].color
          /\ log[k].samples[1].ray # log[k].samples[2].ray

----------------------------------------------------------------------------
(* Properties of the split *)

\* the coordinates on axis i of the centroids of the members' bounding boxes
CentroidCoords(i) == {Centroid(objects[k])[i] : k \in DOMAIN objects}

\* the range of the centroids on axis i
CentroidRange(i) == SetMax(CentroidCoords(i)) - SetMin(CentroidCoords(i))

\* all members have one centroid
OneCentroid == \A i \in Axes : CentroidRange(i) = 0

\* the members whose centroid on axis i is below the midpoint of the range
BelowMidpoint(i) ==
    SelectSeq(objects, LAMBDA o : 2 * Centroid(o)[i] < SetMax(CentroidCoords(i)) + SetMin(CentroidCoords(i)))

\* the members whose centroid on axis i is at the midpoint of the range or above
FromMidpoint(i) ==
    SelectSeq(objects, LAMBDA o : ~(2 * Centroid(o)[i] < SetMax(CentroidCoords(i)) + SetMin(CentroidCoords(i))))

\* C21: when all centroids of the set are identical, bvh_split divides nothing
\* by zero (no bucket index comes of 0/0, no assertion fails) and returns the
\* halves of the midpoint split, whatever the size of the set and the policy
C21_OneCentroidFallsBackToMidpoint ==
    (split # None /\ OneCentroid) =>
        /\ ~IsPanic(split.out)
        /\ \A i \in Axes : split.out.left = BelowMidpoint(i) /\ split.out.right = FromMidpoint(i)

\* C21, its case: five members or more with one centroid were split by SAH
C21_Case ==
    /\ split # None
    /\ OneCentroid
    /\ Len(objects) > 4
    /\ split.split_type = "SAH"

----------------------------------------------------------------------------
(* Properties of the construction *)

\* two members of the input list have the centroid of their bounding boxes in common
CoincidingCentroids ==
    \E i, j \in DOMAIN objects : i # j /\ Centroid(objects[i]) = Centroid(objects[j])

\* C22: Bvh::new comes to an end on every input list: no construction runs
\* into a split that hands the whole set to one half and so recurses on the
\* same set for ever, also when centroids coincide
C22_BuildComesToAnEnd ==
    \A st \in SplitTypes :
        tree[st].kind = "Aborted" => tree[st].panic # "stack overflow"

\* C22, its case: Bvh::new was called on a list with two coinciding centroids
C22_Case ==
    /\ CoincidingCentroids
    /\ \E st \in SplitTypes : tree[st] # Unbuilt

\* the bounding boxes of the members of a bucket, in the order of the list
MemberBoxes(bucket) ==
    Tab([k \in 1..Len(bucket.obj_indexes) |-> ObjectAABB(objects[bucket.obj_indexes[k]])])

\* bvh_split_by_sah was entered and filled its buckets
BucketsFilled == split # None /\ split.locals.sah /\ split.locals.buckets # <<>>

\* C23: the empty box is the identity of union: the box of a bucket, folded by
\* AABB::union from the empty box over the boxes of its members, is the union
\* of the boxes of its members alone
C23_EmptyBoxIsIdentityOfUnion ==
    BucketsFilled =>
        \A j \in 1..N_BUCKETS :
            split.locals.buckets[j].count > 0 =>
                split.locals.buckets[j].aabb = AABBUnion(MemberBoxes(split.locals.buckets[j]))

\* C23, its case: a bucket holds two members or more whose boxes are away from
\* the origin
C23_Case ==
    /\ BucketsFilled
    /\ \E j \in 1..N_BUCKETS :
          /\ split.locals.buckets[j].count >= 2
          /\ AABBUnion(MemberBoxes(split.locals.buckets[j])).min # <<0, 0, 0>>

\* the places in the list of the members in the buckets up to i, and after i
PlacesUpTo(i) == SelectSeq([k \in 1..Len(objects) |-> k], LAMBDA k : split.locals.b_inds[k] <= i)
PlacesAfter(i) == SelectSeq([k \in 1..Len(objects) |-> k], LAMBDA k : split.locals.b_inds[k] > i)

\* the surface area of the union of the bounding boxes of the members at places
AreaOfMembers(places) ==
    surface_area(AABBUnion(Tab([k \in 1..Len(places) |-> ObjectAABB(objects[places[k]])])))

\* countLeft * areaLeft + countRight * areaRight for the plane after bucket i,
\* the areas being those of the unions of the boxes of exactly the members of
\* a side; the cost of the plane is 0.125 plus this over the area of the parent
WeightedAreas(i) ==
    Len(PlacesUpTo(i)) * AreaOfMembers(PlacesUpTo(i))
        + Len(PlacesAfter(i)) * AreaOfMembers(PlacesAfter(i))

\* C24: the SAH branch splits after a bucket i in 0..10 of least cost, the
\* cost weighing the areas of the unions of the boxes of the members of each
\* side by their counts; the members of the buckets up to i go left, the
\* others right
C24_SplitsAtLeastCost ==
    (BucketsFilled /\ ~IsPanic(split.out)) =>
        /\ split.out.min_cost_i \in 0..(N_BUCKETS - 2)
        /\ \A i \in 0..(N_BUCKETS - 2) : WeightedAreas(split.out.min_cost_i) <= WeightedAreas(i)
        /\ split.out.left = Tab([k \in 1..Len(PlacesUpTo(split.out.min_cost_i)) |->
                                    objects[PlacesUpTo(split.out.min_cost_i)[k]]])
        /\ split.out.right = Tab([k \in 1..Len(PlacesAfter(split.out.min_cost_i)) |->
                                     objects[PlacesAfter(split.out.min_cost_i)[k]]])

\* C24, its parts on the index and the halves: these hold
C24_SplitsAtChosenIndex ==
    (BucketsFilled /\ ~IsPanic(split.out)) =>
        /\ split.out.min_cost_i \in 0..(N_BUCKETS - 2)
        /\ split.out.left = Tab([k \in 1..Len(PlacesUpTo(split.out.min_cost_i)) |->
                                    objects[PlacesUpTo(split.out.min_cost_i)[k]]])
        /\ split.out.right = Tab([k \in 1..Len(PlacesAfter(split.out.min_cost_i)) |->
                                     objects[PlacesAfter(split.out.min_cost_i)[k]]])

\* C24, its case: the members fill three buckets or more, so that there are
\* planes of different cost to choose from
C24_Case ==
    /\ BucketsFilled
    /\ ~IsPanic(split.out)
    /\ Cardinality({split.locals.b_inds[k] : k \in DOMAIN objects}) >= 3

\* C25: under the basic policy, and for a set of at most 4 members, the left
\* half holds exactly the members whose centroid on the chosen axis is
\* strictly below the midpoint of the centroid range and the right half all
\* others, in the order of the list; with more than 4 members under SAH the
\* halves come from bvh_split_by_sah instead
C25_MidpointPartition ==
    split # None =>
        IF split.split_type = "Basic" \/ Len(objects) <= 4
        THEN /\ split.out.left = BelowMidpoint(split.locals.maxdim)
             /\ split.out.right = FromMidpoint(split.locals.maxdim)
             /\ DOMAIN split.out = {"left", "right"}
        ELSE IsPanic(split.out) \/ "min_cost_i" \in DOMAIN split.out

\* C25, its case: a midpoint split with members on both sides and the
\* centroid of a member exactly at the midpoint
C25_Case ==
    /\ split # None
    /\ split.split_type = "SAH"
    /\ Len(objects) <= 4
    /\ Len(split.out.left) > 0
    /\ \E k \in DOMAIN split.out.right :
          2 * Centroid(split.out.right[k])[split.locals.maxdim]
              = SetMax(CentroidCoords(split.locals.maxdim)) + SetMin(CentroidCoords(split.locals.maxdim))

\* C26: the axis bvh_split chooses is one on which the range of the centroids
\* is largest, and the lowest such axis: no axis has a larger range and no
\* lower axis one as large
C26_AxisOfLargestRange ==
    split # None =>
        /\ split.locals.maxdim \in Axes
        /\ \A i \in Axes : CentroidRange(i) <= CentroidRange(split.locals.maxdim)
        /\ \A i \in Axes : i < split.locals.maxdim => CentroidRange(i) < CentroidRange(split.locals.maxdim)

\* C26, its case: the range is largest on y and on z alike and larger than on
\* x, and y was chosen
C26_Case ==
    /\ split # None
    /\ CentroidRange(2) = CentroidRange(3)
    /\ CentroidRange(1) < CentroidRange(2)
    /\ CentroidRange(1) > 0
    /\ split.locals.maxdim = 2

\* the least box around the boxes given: on every axis from their least
\* minimum to their greatest maximum
Hull(boxes) ==
    [min |-> [i \in Axes |-> SetMin({b.min[i] : b \in boxes})],
     max |-> [i \in Axes |-> SetMax({b.max[i] : b \in boxes})]]

\* box a lies within box b
Within(a, b) == \A i \in Axes : b.min[i] <= a.min[i] /\ a.max[i] <= b.max[i]

\* every node of t has the box of the claim and encloses what is beneath it
RECURSIVE BoxesFit(_)
BoxesFit(t) ==
    /\ \A k \in DOMAIN LeafObjects(t) : Within(ObjectAABB(LeafObjects(t)[k]), t.aabb)
    /\ IF t.kind = "Node"
       THEN /\ t.aabb = Hull({t.left.aabb, t.right.aabb})
            /\ BoxesFit(t.left)
            /\ BoxesFit(t.right)
       ELSE IF Len(t.objects) = 0
       THEN t.aabb = [min |-> <<0, 0, 0>>, max |-> <<0, 0, 0>>]
       ELSE t.aabb = Hull({ObjectAABB(t.objects[k]) : k \in DOMAIN t.objects})

\* C27: in every built tree the box of a node is the union of the boxes of
\* its two children, the box of a leaf the union of the boxes of its members
\* (the empty box without members), and the box of every node encloses the
\* bounding box of every primitive in the leaves beneath it
C27_NodeBoxesAreUnions ==
    \A st \in SplitTypes : Built(tree[st]) => BoxesFit(tree[st])

\* C27, its case: a tree of two levels of nodes whose root box is larger than
\* the boxes of both children
C27_Case ==
    \E st \in SplitTypes :
        /\ Built(tree[st])
        /\ tree[st].kind = "Node"
        /\ tree[st].left.kind = "Node"
        /\ tree[st].aabb # tree[st].left.aabb
        /\ tree[st].aabb # tree[st].right.aabb

----------------------------------------------------------------------------
(* Properties of the nearest-hit query on ties *)

\* the places, in the leaves of t from left to right, of the primitives the
\* ray of the query meets at the parameter v
PlacesMetAt(t, v) ==
    {k \in DOMAIN LeafObjects(t) : get_intersection(LeafObjects(t)[k], ray) = Some(v)}

----------------------------------------------------------------------------
(* Properties of the count of Bvh::new *)

\* the size recorded at every node of t is the number of primitives in the
\* leaves beneath it
RECURSIVE SizesCountLeaves(_)
SizesCountLeaves(t) ==
    /\ get_num_objects(t) = Len(LeafObjects(t))
    /\ t.kind = "Node" => SizesCountLeaves(t.left) /\ SizesCountLeaves(t.right)

C29_CountNeverFails ==
    \A st \in SplitTypes :
        /\ tree[st].kind = "Aborted" => tree[st].panic # "assert_eq num_objects"
        /\ Built(tree[st]) => get_num_objects(tree[st]) = Len(objects)

----------------------------------------------------------------------------
(* Properties of the bucket indexes *)

\* bvh_split_by_sah was called
SahCalled == split # None /\ split.locals.sah

\* the bucket indexes are within 0..11, no assertion on them failed, the
\* members of greatest centroid coordinate on the chosen axis are in bucket
\* 11 and those of least in bucket 0
IndexesInRange ==
    /\ \A k \in DOMAIN objects : split.locals.b_inds[k] >= 0 /\ split.locals.b_inds[k] < N_BUCKETS
    /\ ~IsPanic(split.out)
    /\ \A k \in DOMAIN objects :
          /\ Centroid(objects[k])[split.locals.maxdim] = SetMax(CentroidCoords(split.locals.maxdim))
                => split.locals.b_inds[k] = N_BUCKETS - 1
          /\ Centroid(objects[k])[split.locals.maxdim] = SetMin(CentroidCoords(split.locals.maxdim))
                => split.locals.b_inds[k] = 0

\* C30: whenever bvh_split_by_sah is called, the bucket index of every member
\* is at least 0 and below 12, so that neither assertion fails; a member whose
\* centroid is the maximum on the chosen axis is in bucket 11, one whose
\* centroid is the minimum in bucket 0
C30_BucketIndexesInRange ==
    SahCalled => IndexesInRange

\* C30 where the centroids differ on the chosen axis: there it holds
C30_InRangeWhenCentroidsDiffer ==
    (SahCalled /\ CentroidRange(split.locals.maxdim) > 0) => IndexesInRange

\* C30, its case: bvh_split_by_sah was called on members of one centroid
C30_Case ==
    /\ SahCalled
    /\ CentroidRange(split.locals.maxdim) = 0

====
